---- MODULE Spec2Model ----
(***************************************************************************)
(* Orchestration saga example: the saga orchestrator of order-service      *)
(* (SagaManager), the command runtime of the three participants            *)
(* (CommandHandler of order-, payment- and inventory-service), and the     *)
(* message bus between them, as one state machine.                         *)
(*                                                                         *)
(* Database tables are variables; every diesel statement that is not       *)
(* inside conn.transaction(..) commits on its own, so a participant's      *)
(* handle_command is a sequence of separately committed steps, one action  *)
(* each.  A Kafka topic is an append-only sequence; a consumer takes the   *)
(* next message (fresh delivery) or, under at-least-once delivery, an      *)
(* earlier one again (redelivery).                                         *)
(***************************************************************************)
EXTENDS Integers, Sequences, FiniteSets, Bags, TLC

\* ------------------------------------------------------------- bounds
NumSagas == 1        \* sagas started by POST /orders
MaxQty == 2          \* largest order quantity
InitStock == 1       \* seeded available_quantity of product "p1"
MaxRedeliver == 1    \* redeliveries under at-least-once delivery
MaxFaults == 1       \* infrastructure errors / crashes
MaxInject == 2       \* commands fed straight to the participants
MaxPoison == 2       \* undecodable payloads put on the bus
MaxUnsupported == 1  \* commands sent to a service that does not support them
MaxOrders == 2       \* orders created while the outbox publisher runs
NumConcurrent == 2   \* sagas in flight together
MaxReplay == 2       \* redeliveries, and early ends, of the replay runs

Sagas == 1..(IF NumSagas > NumConcurrent THEN NumSagas ELSE NumConcurrent)
Products == {"p1", "p2"}          \* "p2" has no inventory row
Quantities == 1..MaxQty

OrderService == "order-service"
PaymentService == "payment-service"
InventoryService == "inventory-service"
Services == {OrderService, PaymentService, InventoryService}
Workers == {1, 2}

NoType == "None"                  \* Option<CommandType>::None
ForwardTypes == {"CreateOrder", "ProcessPayment", "ReserveInventory", "ApproveOrder"}
CompensationTypes == {"CancelOrder", "CompensatePayment", "CompensateInventory"}
CommandType == ForwardTypes \cup CompensationTypes
SagaStatus == {"Started", "InProgress", "Completed", "Compensating", "Compensated", "Failed"}

ReplyTopic == "order-replies"
CommandTopic(service_name) == service_name \o "-commands"
Topics == {CommandTopic(p) : p \in Services} \cup {ReplyTopic}

VARIABLES
    saga_transactions,   \* order-service db: saga id -> row
    orders,              \* order-service db: order id -> status
    outbox_events,       \* order-service db: sequence of outbox rows
    payments,            \* payment-service db: sequence of payment rows
    inventory,           \* inventory-service db: product id -> counters
    reservations,        \* inventory-service db: sequence of reservation rows
    processed_commands,  \* per service: set of idempotency rows
    topics,              \* the bus: topic -> sequence of messages
    consumed,            \* per topic: messages delivered for the first time
    committed,           \* per topic: the consumer group's committed offset
    publisher,           \* OutboxProcessor: where its tick stands
    events,              \* the event topics of the bus
    workers,             \* per service and worker: handle_command in progress
    env,                 \* what the environment may still do (remaining budgets)
    published,           \* history: per saga, the commands put on the bus
    handled,             \* history: per saga, the replies handle_reply was given
    mutations,           \* history: bag of idempotency keys, one copy per domain write
    deliveries,          \* history: bag of finished handle_command calls
    mark_failures,       \* history: bag of outbox rows, one copy per failed mark
    responses            \* history: what start_saga returned to create_order

dbvars == <<saga_transactions, orders, outbox_events, payments, inventory,
            reservations, processed_commands>>
outboxvars == <<publisher, events, mark_failures, responses>>
vars == <<saga_transactions, orders, outbox_events, payments, inventory,
          reservations, processed_commands, topics, consumed, committed, publisher,
          events, workers, env, published, handled, mutations, deliveries, mark_failures,
          responses>>

\* ------------------------------------------------ shared domain types
Some(x) == <<x>>
None == <<>>

SagaSteps ==
    << [command_type |-> "CreateOrder", compensation_type |-> "CancelOrder",
        service_name |-> OrderService],
       [command_type |-> "ProcessPayment", compensation_type |-> "CompensatePayment",
        service_name |-> PaymentService],
       [command_type |-> "ReserveInventory", compensation_type |-> "CompensateInventory",
        service_name |-> InventoryService],
       [command_type |-> "ApproveOrder", compensation_type |-> NoType,
        service_name |-> OrderService] >>

NewSaga(order_data) ==
    [steps |-> SagaSteps, current_step |-> 0, status |-> "Started",
     context |-> [order_data |-> order_data]]

next_step(saga) ==
    IF saga.current_step < Len(saga.steps)
    THEN Some(saga.steps[saga.current_step + 1])
    ELSE None

\* variant of advance_step that passes over a step
advance_step_skipping(saga) ==
    IF saga.current_step < Len(saga.steps)
    THEN [saga EXCEPT !.current_step = @ + 2]
    ELSE saga

\* variant of advance_step without the bound on current_step
advance_step_unguarded(saga) ==
    [saga EXCEPT !.current_step = @ + 1]

advance_step(saga) ==
    IF saga.current_step < Len(saga.steps)
    THEN [saga EXCEPT !.current_step = @ + 1]
    ELSE saga

RECURSIVE Reverse(_)
Reverse(s) == IF s = <<>> THEN <<>> ELSE Append(Reverse(Tail(s)), Head(s))

HasCompensation(step) == step.compensation_type # NoType

\* variant of get_compensation_steps without .rev()
get_compensation_steps_forward(saga) ==
    SelectSeq(SubSeq(saga.steps, 1, saga.current_step), HasCompensation)

get_compensation_steps(saga) ==
    SelectSeq(Reverse(SubSeq(saga.steps, 1, saga.current_step)), HasCompensation)

\* Command::new: id and idempotency_key are fresh for every command built;
\* n counts the commands put on the bus for the saga so far.
NewCommand(saga_id, n, command_type, payload) ==
    [id |-> <<saga_id, n>>, saga_id |-> saga_id, command_type |-> command_type,
     payload |-> payload, idempotency_key |-> <<saga_id, n>>]

NoResult == [kind |-> "null", order_id |-> 0, quantity |-> 0]
Result(kind, order_id, quantity) ==
    [kind |-> kind, order_id |-> order_id, quantity |-> quantity]

ReplySuccess(command, result) ==
    [command_id |-> command.id, saga_id |-> command.saga_id, status |-> "Success",
     result |-> result, error |-> "None"]

ReplyFailed(command, error) ==
    [command_id |-> command.id, saga_id |-> command.saga_id, status |-> "Failed",
     result |-> NoResult, error |-> error]

\* ------------------------------------------------- saga persistence
\* variant of From<SagaTransaction> that writes the status as its JSON text,
\* quotes included
DbSagaFrom_json(saga) ==
    [steps |-> saga.steps, current_step |-> saga.current_step,
     status |-> "\"" \o saga.status \o "\"", context |-> saga.context]

DbSagaFrom(saga) ==
    [steps |-> saga.steps, current_step |-> saga.current_step,
     status |-> saga.status, context |-> saga.context]

SagaTryFrom(db_saga) ==
    [steps |-> db_saga.steps, current_step |-> db_saga.current_step,
     status |-> IF db_saga.status \in SagaStatus THEN db_saga.status ELSE "Failed",
     context |-> db_saga.context]

\* ------------------------------------------------ saga orchestrator
\* payload of a command, from context["order_data"]
PayloadFor(command_type, order_data) ==
    CASE command_type \in {"CreateOrder", "ApproveOrder", "CancelOrder"} ->
            order_data
      [] command_type \in {"ProcessPayment", "CompensatePayment"} ->
            [order_id |-> order_data.order_id, amount |-> order_data.total_amount,
             payment_method |-> "credit_card"]
      [] command_type \in {"ReserveInventory", "CompensateInventory"} ->
            [product_id |-> order_data.product_id, quantity |-> order_data.quantity,
             order_id |-> order_data.order_id]

\* what a handler step leaves: the saga in memory and the command to send, if any
Outcome(saga, send) == [saga |-> saga, send |-> send, err |-> FALSE]
ToSend(command_type, service_name, payload) ==
    Some([command_type |-> command_type, service_name |-> service_name,
          payload |-> payload])

\* create_command_for_step: the payload by the step's forward command_type, and
\* Err("Unsupported command type") for the types it does not list
create_command_for_step(saga, step) ==
    IF step.command_type \in {"CreateOrder", "ApproveOrder", "CancelOrder",
                              "ProcessPayment", "ReserveInventory"}
    THEN Outcome(saga, ToSend(step.command_type, step.service_name,
                              PayloadFor(step.command_type, saga.context.order_data)))
    ELSE [saga |-> saga, send |-> None, err |-> TRUE]

\* variant of process_next_compensation that never marks the saga Compensated
process_next_compensation_open(saga) ==
    LET compensation_steps == saga.context.compensation_steps
        compensation_index == saga.context.compensation_index
    IN  IF compensation_index < Len(compensation_steps)
        THEN LET step == compensation_steps[compensation_index + 1]
             IN  IF step.compensation_type # NoType
                 THEN Outcome(saga, ToSend(step.compensation_type, step.service_name,
                              PayloadFor(step.compensation_type,
                                         saga.context.order_data)))
                 ELSE Outcome(saga, None)
        ELSE Outcome(saga, None)

\* variant of process_next_compensation that builds the command with the
\* step's forward command_type
process_next_compensation_forward(saga) ==
    LET compensation_steps == saga.context.compensation_steps
        compensation_index == saga.context.compensation_index
    IN  IF compensation_index < Len(compensation_steps)
        THEN LET step == compensation_steps[compensation_index + 1]
             IN  IF step.compensation_type # NoType
                 THEN Outcome(saga, ToSend(step.command_type, step.service_name,
                              PayloadFor(step.command_type,
                                         saga.context.order_data)))
                 ELSE Outcome(saga, None)
        ELSE Outcome([saga EXCEPT !.status = "Compensated"], None)

process_next_compensation(saga) ==
    LET compensation_steps == saga.context.compensation_steps
        compensation_index == saga.context.compensation_index
    IN  IF compensation_index < Len(compensation_steps)
        THEN LET step == compensation_steps[compensation_index + 1]
             IN  IF step.compensation_type # NoType
                 THEN Outcome(saga, ToSend(step.compensation_type, step.service_name,
                              PayloadFor(step.compensation_type,
                                         saga.context.order_data)))
                 ELSE Outcome(saga, None)
        ELSE Outcome([saga EXCEPT !.status = "Compensated"], None)

\* variant of start_compensation that keeps a compensation_index already in
\* the context
start_compensation_resuming(saga) ==
    process_next_compensation(
        [saga EXCEPT !.context =
            [k \in DOMAIN @ \cup {"compensation_steps", "compensation_index"} |->
                CASE k = "compensation_steps" -> get_compensation_steps(saga)
                  [] k = "compensation_index" ->
                        IF k \in DOMAIN saga.context THEN saga.context[k] ELSE 0
                  [] OTHER -> @[k]]])

start_compensation(saga) ==
    process_next_compensation(
        [saga EXCEPT !.context =
            [k \in DOMAIN @ \cup {"compensation_steps", "compensation_index"} |->
                CASE k = "compensation_steps" -> get_compensation_steps(saga)
                  [] k = "compensation_index" -> 0
                  [] OTHER -> @[k]]])

continue_compensation(saga) ==
    IF get_compensation_steps(saga) = <<>>
    THEN Outcome([saga EXCEPT !.status = "Compensated"], None)
    ELSE Outcome(saga, None)

\* variant of handle_reply that sends the last command once more when it
\* completes the saga
handle_reply_resending(saga, reply) ==
    CASE reply.status = "Success" ->
            IF saga.status = "Compensating"
            THEN IF "compensation_index" \in DOMAIN saga.context
                 THEN process_next_compensation(
                          [saga EXCEPT !.context.compensation_index = @ + 1])
                 ELSE Outcome([saga EXCEPT !.status = "Compensated"], None)
            ELSE LET advanced == advance_step(saga)
                     step == next_step(advanced)
                 IN  IF step # None
                     THEN create_command_for_step(advanced, step[1])
                     ELSE Outcome([advanced EXCEPT !.status = "Completed"],
                                  ToSend("ApproveOrder", OrderService,
                                         PayloadFor("ApproveOrder",
                                                    saga.context.order_data)))
      [] reply.status = "Failed" ->
            start_compensation([saga EXCEPT !.status = "Compensating"])
      [] reply.status = "Compensated" ->
            continue_compensation(saga)

\* the match of handle_reply on reply.status
handle_reply(saga, reply) ==
    CASE reply.status = "Success" ->
            IF saga.status = "Compensating"
            THEN IF "compensation_index" \in DOMAIN saga.context
                 THEN process_next_compensation(
                          [saga EXCEPT !.context.compensation_index = @ + 1])
                 ELSE Outcome([saga EXCEPT !.status = "Compensated"], None)
            ELSE LET advanced == advance_step(saga)
                     step == next_step(advanced)
                 IN  IF step # None
                     THEN create_command_for_step(advanced, step[1])
                     ELSE Outcome([advanced EXCEPT !.status = "Completed"], None)
      [] reply.status = "Failed" ->
            start_compensation([saga EXCEPT !.status = "Compensating"])
      [] reply.status = "Compensated" ->
            continue_compensation(saga)

\* ------------------------------------------------------------ the bus
\* serde_json::from_str::<Command> / ::<CommandReply>: a payload decodes when
\* it carries the fields of the struct
Garbage == [raw |-> "not json"]
DecodesCommand(message) ==
    {"id", "saga_id", "command_type", "payload", "idempotency_key"} \subseteq DOMAIN message
DecodesReply(message) ==
    {"command_id", "saga_id", "status", "result", "error"} \subseteq DOMAIN message
Decodes(t, message) ==
    IF t = ReplyTopic THEN DecodesReply(message) ELSE DecodesCommand(message)

\* message i of topic t may be handed to its consumer: the next one, or an
\* earlier one again while redeliveries are left
CanDeliver(t, i) ==
    /\ i \in 1..Len(topics[t])
    /\ i <= consumed[t] + 1
    /\ (i <= consumed[t] => env.redeliver > 0)

Redelivered(t, i) == i <= consumed[t]

AfterDeliver(t, i) ==
    IF Redelivered(t, i) THEN consumed ELSE [consumed EXCEPT ![t] = i]

\* consumer.commit_message: the group's committed offset of the topic becomes
\* the one of the message
commit_message(t, i) == [committed EXCEPT ![t] = i]

\* the infrastructure errors an operation may meet while faults are left
FaultChoices(faults) == {"none"} \cup (IF env.faults > 0 THEN faults ELSE {})

Spend(redelivered, faulted) ==
    [env EXCEPT !.redeliver = IF redelivered THEN @ - 1 ELSE @,
                !.faults = IF faulted THEN @ - 1 ELSE @]

\* send_command: the command numbered n of its saga, appended to the topic of
\* its service
SendCommand(bus, saga_id, n, send) ==
    [bus EXCEPT ![CommandTopic(send.service_name)] =
        Append(@, NewCommand(saga_id, n, send.command_type, send.payload))]

\* ------------------------------------------------ orchestrator actions
\* POST /orders -> SagaManager::start_saga: insert the saga row, then publish
\* the command of steps[0].  Faults: "insert" (db checkout or the insert
\* fails: nothing is stored, nothing is published), "send" (the publish
\* fails: the row stays).  create_order answers with what start_saga returned.
StartSaga_publish_first(order_data, fault) ==
    LET saga_id == Cardinality(DOMAIN saga_transactions) + 1
        saga == NewSaga(order_data)
        step == next_step(saga)
        out == IF step # None THEN create_command_for_step(saga, step[1])
               ELSE Outcome(saga, None)
        sent == out.send # None /\ fault # "send"
        inserted == fault = "none"
    IN  /\ env.sagas > 0
        /\ order_data.order_id = saga_id
        /\ fault \in FaultChoices({"insert", "send"})
        /\ saga_transactions' =
               IF inserted
               THEN [s \in DOMAIN saga_transactions \cup {saga_id} |->
                       IF s = saga_id THEN DbSagaFrom(saga) ELSE saga_transactions[s]]
               ELSE saga_transactions
        /\ topics' = IF sent THEN SendCommand(topics, saga_id, 1, out.send[1])
                     ELSE topics
        /\ published' = IF sent THEN [published EXCEPT ![saga_id] = Append(@, out.send[1])]
                        ELSE published
        /\ env' = [Spend(FALSE, fault # "none") EXCEPT !.sagas = @ - 1]
        /\ responses' = Append(responses, [saga_id |-> saga_id, ok |-> fault = "none"])
        /\ UNCHANGED <<orders, outbox_events, payments, inventory, reservations,
                       processed_commands, consumed, committed, workers, handled,
                       mutations, deliveries, publisher, events, mark_failures>>
StartSaga(order_data, fault) ==
    LET saga_id == Cardinality(DOMAIN saga_transactions) + 1
        saga == NewSaga(order_data)
        step == next_step(saga)
        out == IF step # None THEN create_command_for_step(saga, step[1])
               ELSE Outcome(saga, None)
        inserted == fault # "insert"
        sent == inserted /\ out.send # None /\ fault = "none"
    IN  /\ env.sagas > 0
        /\ order_data.order_id = saga_id
        /\ fault \in FaultChoices({"insert", "send"})
        /\ saga_transactions' =
               IF inserted
               THEN [s \in DOMAIN saga_transactions \cup {saga_id} |->
                       IF s = saga_id THEN DbSagaFrom(saga) ELSE saga_transactions[s]]
               ELSE saga_transactions
        /\ topics' = IF sent THEN SendCommand(topics, saga_id, 1, out.send[1])
                     ELSE topics
        /\ published' = IF sent THEN [published EXCEPT ![saga_id] = Append(@, out.send[1])]
                        ELSE published
        /\ env' = [Spend(FALSE, fault # "none") EXCEPT !.sagas = @ - 1]
        /\ responses' = Append(responses, [saga_id |-> saga_id, ok |-> fault = "none"])
        /\ UNCHANGED <<orders, outbox_events, payments, inventory, reservations,
                       processed_commands, consumed, committed, workers, handled,
                       mutations, deliveries, publisher, events, mark_failures>>

\* variant of handle_reply that updates the row before it sends the command
HandleReply_update_first(i, fault) ==
    LET reply == topics[ReplyTopic][i]
        sid == reply.saga_id
        found == sid \in DOMAIN saga_transactions /\ fault # "load"
        saga == SagaTryFrom(saga_transactions[sid])
        out == handle_reply(saga, reply)
        sent == found /\ ~out.err /\ out.send # None /\ fault # "send"
        ok == found /\ ~out.err /\ fault = "none"
        n == Len(published[sid]) + 1
    IN  /\ CanDeliver(ReplyTopic, i)
        /\ DecodesReply(reply)
        /\ fault \in FaultChoices({"load", "send", "update"})
        /\ (fault = "send" => found /\ out.send # None)
        /\ (fault = "update" => found /\ ~out.err)
        /\ consumed' = AfterDeliver(ReplyTopic, i)
        /\ committed' = commit_message(ReplyTopic, i)
        /\ env' = Spend(Redelivered(ReplyTopic, i), fault # "none")
        /\ topics' = IF sent THEN SendCommand(topics, sid, n, out.send[1]) ELSE topics
        /\ published' = IF sent THEN [published EXCEPT ![sid] = Append(@, out.send[1])]
                        ELSE published
        /\ saga_transactions' =
               IF found /\ ~out.err /\ fault # "update"
               THEN [saga_transactions EXCEPT ![sid] = DbSagaFrom(out.saga)]
               ELSE saga_transactions
        /\ handled' = [handled EXCEPT ![sid] =
               Append(@, [command_id |-> reply.command_id, status |-> reply.status,
                          ok |-> ok])]
        /\ UNCHANGED <<orders, outbox_events, payments, inventory, reservations,
                       processed_commands, workers, mutations, deliveries,
                       outboxvars>>
\* variant of handle_reply whose update has no filter on the saga id
HandleReply_update_all(i, fault) ==
    LET reply == topics[ReplyTopic][i]
        sid == reply.saga_id
        found == sid \in DOMAIN saga_transactions /\ fault # "load"
        saga == SagaTryFrom(saga_transactions[sid])
        out == handle_reply(saga, reply)
        sent == found /\ ~out.err /\ out.send # None /\ fault # "send"
        ok == found /\ ~out.err /\ fault = "none"
        n == Len(published[sid]) + 1
    IN  /\ CanDeliver(ReplyTopic, i)
        /\ DecodesReply(reply)
        /\ fault \in FaultChoices({"load", "send", "update"})
        /\ (fault = "send" => found /\ out.send # None)
        /\ (fault = "update" => found /\ ~out.err)
        /\ consumed' = AfterDeliver(ReplyTopic, i)
        /\ committed' = commit_message(ReplyTopic, i)
        /\ env' = Spend(Redelivered(ReplyTopic, i), fault # "none")
        /\ topics' = IF sent THEN SendCommand(topics, sid, n, out.send[1]) ELSE topics
        /\ published' = IF sent THEN [published EXCEPT ![sid] = Append(@, out.send[1])]
                        ELSE published
        /\ saga_transactions' =
               IF ok THEN [s \in DOMAIN saga_transactions |-> DbSagaFrom(out.saga)]
               ELSE saga_transactions
        /\ handled' = [handled EXCEPT ![sid] =
               Append(@, [command_id |-> reply.command_id, status |-> reply.status,
                          ok |-> ok])]
        /\ UNCHANGED <<orders, outbox_events, payments, inventory, reservations,
                       processed_commands, workers, mutations, deliveries,
                       outboxvars>>
\* run_reply_handler + handle_reply for message i of the reply topic.  Faults:
\* "load" (db checkout or the saga query fails), "send" (send_command fails),
\* "update" (the final diesel::update fails).  The offset is committed in
\* every case, so the reply is not handed over again by the run loop itself.
HandleReply(i, fault) ==
    LET reply == topics[ReplyTopic][i]
        sid == reply.saga_id
        found == sid \in DOMAIN saga_transactions /\ fault # "load"
        saga == SagaTryFrom(saga_transactions[sid])
        out == handle_reply(saga, reply)
        sent == found /\ ~out.err /\ out.send # None /\ fault # "send"
        ok == found /\ ~out.err /\ fault = "none"
        n == Len(published[sid]) + 1
    IN  /\ CanDeliver(ReplyTopic, i)
        /\ DecodesReply(reply)
        /\ fault \in FaultChoices({"load", "send", "update"})
        /\ (fault = "send" => found /\ out.send # None)
        /\ (fault = "update" => found /\ ~out.err)
        /\ consumed' = AfterDeliver(ReplyTopic, i)
        /\ committed' = commit_message(ReplyTopic, i)
        /\ env' = Spend(Redelivered(ReplyTopic, i), fault # "none")
        /\ topics' = IF sent THEN SendCommand(topics, sid, n, out.send[1]) ELSE topics
        /\ published' = IF sent THEN [published EXCEPT ![sid] = Append(@, out.send[1])]
                        ELSE published
        /\ saga_transactions' =
               IF ok THEN [saga_transactions EXCEPT ![sid] = DbSagaFrom(out.saga)]
               ELSE saga_transactions
        /\ handled' = [handled EXCEPT ![sid] =
               Append(@, [command_id |-> reply.command_id, status |-> reply.status,
                          ok |-> ok])]
        /\ UNCHANGED <<orders, outbox_events, payments, inventory, reservations,
                       processed_commands, workers, mutations, deliveries,
                       outboxvars>>

\* run_reply_handler for a message i that does not decode as a CommandReply:
\* handle_reply is not called, the offset is committed
ReplyUndecodable(i) ==
    /\ CanDeliver(ReplyTopic, i)
    /\ ~DecodesReply(topics[ReplyTopic][i])
    /\ consumed' = AfterDeliver(ReplyTopic, i)
    /\ committed' = commit_message(ReplyTopic, i)
    /\ env' = Spend(Redelivered(ReplyTopic, i), FALSE)
    /\ UNCHANGED <<dbvars, topics, workers, published, handled, mutations,
                   deliveries, outboxvars>>

\* ------------------------------------------- participant domain handlers
\* The domain tables of the three participants, as one value the handlers
\* map to the tables after their next statement.
Db == [orders |-> orders, outbox_events |-> outbox_events, payments |-> payments,
       inventory |-> inventory, reservations |-> reservations]

NoReply == [command_id |-> <<0, 0>>, saga_id |-> 0, status |-> "None",
            result |-> NoResult, error |-> "None"]
NoRow == [id |-> 0, quantity |-> 0]

\* where a handler stands after a statement: the tables, the next statement
\* (pc "store" = it returned Ok(reply), "error" = it returned Err), the reply,
\* and the row it read and still uses
Effect(db, pc, reply, row) == [db |-> db, pc |-> pc, reply |-> reply, row |-> row]

\* .first() of a query without ORDER BY: any matching row (0 = no row)
FirstOf(matching) == IF matching = {} THEN {0} ELSE matching

\* ---- order-service
\* variant of handle_create_order without the transaction: the order insert
\* commits on its own, the outbox insert is the next statement
handle_create_order_autocommit(db, command) ==
    LET order_data == command.payload
        has_event == \E i \in DOMAIN db.outbox_events :
                        db.outbox_events[i].aggregate_id = order_data.order_id
    IN  IF order_data.order_id \in DOMAIN db.orders /\ has_event
        THEN Effect(db, "error", NoReply, NoRow)
        ELSE IF order_data.order_id \in DOMAIN db.orders
        THEN Effect(
               [db EXCEPT
                  !.outbox_events = Append(@, [aggregate_id |-> order_data.order_id,
                                               event_type |-> "OrderCreated",
                                               processed |-> FALSE])],
               "store",
               ReplySuccess(command, Result("OrderData", order_data.order_id,
                                            order_data.quantity)),
               NoRow)
        ELSE Effect(
               [db EXCEPT
                  !.orders = [o \in DOMAIN @ \cup {order_data.order_id} |->
                                 IF o = order_data.order_id THEN "created" ELSE @[o]]],
               "handle", NoReply, NoRow)
handle_create_order(db, command) ==
    LET order_data == command.payload
    IN  IF order_data.order_id \in DOMAIN db.orders
        THEN Effect(db, "error", NoReply, NoRow)      \* primary key orders(id)
        ELSE Effect(
               [db EXCEPT
                  !.orders = [o \in DOMAIN @ \cup {order_data.order_id} |->
                                 IF o = order_data.order_id THEN "created" ELSE @[o]],
                  !.outbox_events = Append(@, [aggregate_id |-> order_data.order_id,
                                               event_type |-> "OrderCreated",
                                               processed |-> FALSE])],
               "store",
               ReplySuccess(command, Result("OrderData", order_data.order_id,
                                            order_data.quantity)),
               NoRow)

SetOrderStatus(db, command, status) ==
    LET order_data == command.payload
    IN  Effect([db EXCEPT !.orders = [o \in DOMAIN @ |->
                              IF o = order_data.order_id THEN status ELSE @[o]]],
               "store",
               ReplySuccess(command, Result("OrderData", order_data.order_id,
                                            order_data.quantity)),
               NoRow)

handle_approve_order(db, command) == SetOrderStatus(db, command, "approved")

handle_cancel_order(db, command) == SetOrderStatus(db, command, "cancelled")

\* ---- payment-service
PaymentsOf(db, order_id) == {i \in DOMAIN db.payments : db.payments[i].order_id = order_id}

\* variant of handle_process_payment that records the declined payment
handle_process_payment_recording(db, worker, pick, should_succeed) ==
    LET command == worker.command
        order_id == command.payload.order_id
    IN  IF worker.pc = "handle"
        THEN IF pick # 0 /\ db.payments[pick].status = "processed"
             THEN Effect(db, "store",
                         ReplySuccess(command, Result("Payment", order_id, 0)), NoRow)
             ELSE IF ~should_succeed
             THEN Effect([db EXCEPT !.payments =
                             Append(@, [order_id |-> order_id, status |-> "failed"])],
                         "store",
                         ReplyFailed(command, "Payment processing failed"), NoRow)
             ELSE Effect(db, "write", NoReply, NoRow)
        ELSE Effect([db EXCEPT !.payments =
                        Append(@, [order_id |-> order_id, status |-> "processed"])],
                    "store",
                    ReplySuccess(command, Result("NewPayment", order_id, 0)), NoRow)
handle_process_payment(db, worker, pick, should_succeed) ==
    LET command == worker.command
        order_id == command.payload.order_id
    IN  IF worker.pc = "handle"
        THEN IF pick # 0 /\ db.payments[pick].status = "processed"
             THEN Effect(db, "store",
                         ReplySuccess(command, Result("Payment", order_id, 0)), NoRow)
             ELSE IF ~should_succeed
             THEN Effect(db, "store",
                         ReplyFailed(command, "Payment processing failed"), NoRow)
             ELSE Effect(db, "write", NoReply, NoRow)
        ELSE Effect([db EXCEPT !.payments =
                        Append(@, [order_id |-> order_id, status |-> "processed"])],
                    "store",
                    ReplySuccess(command, Result("NewPayment", order_id, 0)), NoRow)

\* variant of handle_compensate_payment that records each refund as a row
handle_compensate_payment_recording(db, command) ==
    Effect([db EXCEPT !.payments =
                Append([i \in DOMAIN @ |->
                           IF @[i].order_id = command.payload.order_id
                           THEN [@[i] EXCEPT !.status = "refunded"] ELSE @[i]],
                       [order_id |-> command.payload.order_id, status |-> "refunded"])],
           "store", ReplySuccess(command, Result("refunded", 0, 0)), NoRow)

handle_compensate_payment(db, command) ==
    Effect([db EXCEPT !.payments = [i \in DOMAIN @ |->
                IF @[i].order_id = command.payload.order_id
                THEN [@[i] EXCEPT !.status = "refunded"] ELSE @[i]]],
           "store", ReplySuccess(command, Result("refunded", 0, 0)), NoRow)

\* ---- inventory-service
ReservationsOf(db, payload) ==
    {i \in DOMAIN db.reservations :
        /\ db.reservations[i].order_id = payload.order_id
        /\ db.reservations[i].product_id = payload.product_id}

handle_reserve_inventory(db, worker, pick) ==
    LET command == worker.command
        inventory_data == command.payload
        product_id == inventory_data.product_id
    IN  CASE worker.pc = "handle" ->
               IF pick # 0 /\ db.reservations[pick].status = "reserved"
               THEN Effect(db, "store",
                           ReplySuccess(command,
                               Result("Reservation", inventory_data.order_id,
                                      db.reservations[pick].quantity)),
                           NoRow)
               ELSE Effect(db, "read_inventory", NoReply, NoRow)
          [] worker.pc = "read_inventory" ->
               IF product_id \notin DOMAIN db.inventory
               THEN Effect(db, "store", ReplyFailed(command, "Product not found"), NoRow)
               ELSE IF db.inventory[product_id].available_quantity
                          < inventory_data.quantity
               THEN Effect(db, "store",
                           ReplyFailed(command, "Insufficient inventory"), NoRow)
               ELSE Effect(db, "write", NoReply, NoRow)
          [] worker.pc = "write" ->
               Effect(
                 [db EXCEPT
                    !.inventory = [p \in DOMAIN @ |->
                       IF p = product_id
                       THEN [available_quantity |->
                                @[p].available_quantity - inventory_data.quantity,
                             reserved_quantity |->
                                @[p].reserved_quantity + inventory_data.quantity]
                       ELSE @[p]],
                    !.reservations = Append(@,
                       [product_id |-> product_id,
                        order_id |-> inventory_data.order_id,
                        quantity |-> inventory_data.quantity,
                        status |-> "reserved"])],
                 "store",
                 ReplySuccess(command, Result("reserved", 0, inventory_data.quantity)),
                 NoRow)

handle_compensate_inventory(db, worker, pick) ==
    LET command == worker.command
        inventory_data == command.payload
        product_id == inventory_data.product_id
        reservation == worker.row
    IN  IF worker.pc = "handle"
        THEN IF pick # 0 /\ db.reservations[pick].status = "reserved"
             THEN Effect(db, "write", NoReply,
                         [id |-> pick, quantity |-> db.reservations[pick].quantity])
             ELSE Effect(db, "store",
                         ReplySuccess(command, Result("compensated", 0, 0)), NoRow)
        ELSE Effect(
               [db EXCEPT
                  !.inventory = [p \in DOMAIN @ |->
                     IF p = product_id
                     THEN [available_quantity |->
                              @[p].available_quantity + reservation.quantity,
                           reserved_quantity |->
                              @[p].reserved_quantity - reservation.quantity]
                     ELSE @[p]],
                  !.reservations = [@ EXCEPT ![reservation.id].status = "cancelled"]],
               "store", ReplySuccess(command, Result("compensated", 0, 0)), NoRow)

\* variant of the `_ =>` arm that answers Success
Unsupported_success(db, command) ==
    Effect(db, "store", ReplySuccess(command, NoResult), NoRow)
Unsupported(db, command) ==
    Effect(db, "store", ReplyFailed(command, "Unsupported command type"), NoRow)

\* the match on command.command_type of each service's handle_command, and the
\* handler's next statement
HandlerStep(service, db, worker, pick, should_succeed) ==
    LET command == worker.command
        command_type == command.command_type
    IN  CASE service = OrderService /\ command_type = "CreateOrder" ->
               handle_create_order(db, command)
          [] service = OrderService /\ command_type = "ApproveOrder" ->
               handle_approve_order(db, command)
          [] service = OrderService /\ command_type = "CancelOrder" ->
               handle_cancel_order(db, command)
          [] service = PaymentService /\ command_type = "ProcessPayment" ->
               handle_process_payment(db, worker, pick, should_succeed)
          [] service = PaymentService /\ command_type = "CompensatePayment" ->
               handle_compensate_payment(db, command)
          [] service = InventoryService /\ command_type = "ReserveInventory" ->
               handle_reserve_inventory(db, worker, pick)
          [] service = InventoryService /\ command_type = "CompensateInventory" ->
               handle_compensate_inventory(db, worker, pick)
          [] OTHER -> Unsupported(db, command)

\* the rows .first() may return to the statement the worker is about to run
Picks(service, db, worker) ==
    LET command == worker.command
    IN  CASE worker.pc = "handle" /\ service = PaymentService
                /\ command.command_type = "ProcessPayment" ->
               FirstOf(PaymentsOf(db, command.payload.order_id))
          [] worker.pc = "handle" /\ service = InventoryService
                /\ command.command_type \in {"ReserveInventory", "CompensateInventory"} ->
               FirstOf(ReservationsOf(db, command.payload))
          [] OTHER -> {0}

\* rand::random::<f64>() < success_rate, where it is drawn
Draws(service, db, worker, pick) ==
    IF /\ worker.pc = "handle" /\ service = PaymentService
       /\ worker.command.command_type = "ProcessPayment"
       /\ ~(pick # 0 /\ db.payments[pick].status = "processed")
    THEN BOOLEAN ELSE {TRUE}

\* ---------------------------------------------- participant runtime
NoCommand == [id |-> <<0, 0>>, saga_id |-> 0, command_type |-> NoType,
              idempotency_key |-> <<0, 0>>]
Idle == [pc |-> "idle", command |-> NoCommand, reply |-> NoReply, row |-> NoRow,
         cached |-> FALSE, offset |-> 0]

\* one finished call of handle_command, for the history
Delivery(service, worker, outcome) ==
    SetToBag({[service |-> service, key |-> worker.command.idempotency_key,
               outcome |-> outcome]})

\* check_idempotency
Existing(service, key) ==
    {r \in processed_commands[service] : r.idempotency_key = key}

\* variant of the idempotency-hit reply that drops the stored result
CachedReply_without_result(command, existing) ==
    [command_id |-> command.id, saga_id |-> command.saga_id, status |-> "Success",
     result |-> NoResult, error |-> "None"]

\* the reply handle_command builds on an idempotency hit
CachedReply(command, existing) ==
    [command_id |-> command.id, saga_id |-> command.saga_id, status |-> "Success",
     result |-> existing.result, error |-> "None"]

\* CommandHandler::run: worker w of the service is handed message i of its
\* command topic and calls handle_command
Receive(service, w, i) ==
    /\ w <= env.workers
    /\ workers[service][w].pc = "idle"
    /\ CanDeliver(CommandTopic(service), i)
    /\ DecodesCommand(topics[CommandTopic(service)][i])
    /\ consumed' = AfterDeliver(CommandTopic(service), i)
    /\ env' = Spend(Redelivered(CommandTopic(service), i), FALSE)
    /\ workers' = [workers EXCEPT ![service][w] =
                      [Idle EXCEPT !.pc = "check",
                                   !.command = topics[CommandTopic(service)][i],
                                   !.offset = i]]
    /\ UNCHANGED <<dbvars, topics, committed, published, handled, mutations,
                   deliveries, outboxvars>>

\* CommandHandler::run for a message i that does not decode as a Command:
\* handle_command is not called, the offset is committed
ReceiveUndecodable_uncommitted(service, w, i) ==
    /\ w <= env.workers
    /\ workers[service][w].pc = "idle"
    /\ CanDeliver(CommandTopic(service), i)
    /\ ~DecodesCommand(topics[CommandTopic(service)][i])
    /\ consumed' = AfterDeliver(CommandTopic(service), i)
    /\ env' = Spend(Redelivered(CommandTopic(service), i), FALSE)
    /\ UNCHANGED <<dbvars, topics, committed, workers, published, handled,
                   mutations, deliveries, outboxvars>>
ReceiveUndecodable(service, w, i) ==
    /\ w <= env.workers
    /\ workers[service][w].pc = "idle"
    /\ CanDeliver(CommandTopic(service), i)
    /\ ~DecodesCommand(topics[CommandTopic(service)][i])
    /\ consumed' = AfterDeliver(CommandTopic(service), i)
    /\ committed' = commit_message(CommandTopic(service), i)
    /\ env' = Spend(Redelivered(CommandTopic(service), i), FALSE)
    /\ UNCHANGED <<dbvars, topics, workers, published, handled, mutations,
                   deliveries, outboxvars>>

\* handle_command, the idempotency lookup: on a hit the reply is built from
\* the stored row with status Success and goes straight to send_reply
CheckIdempotency(service, w) ==
    LET worker == workers[service][w]
        command == worker.command
        existing == Existing(service, command.idempotency_key)
    IN  /\ worker.pc = "check"
        /\ workers' = [workers EXCEPT ![service][w] =
              IF existing # {}
              THEN [worker EXCEPT
                      !.pc = "send",
                      !.cached = TRUE,
                      !.reply = CachedReply(command, CHOOSE r \in existing : TRUE)]
              ELSE [worker EXCEPT !.pc = "handle"]]
        /\ UNCHANGED <<dbvars, topics, consumed, committed, env, published, handled,
                       mutations, deliveries, outboxvars>>

\* handle_command, the domain handler: its next statement (a read, or a write
\* that commits at once; the statements of one conn.transaction are one step)
Handle(service, w, pick, should_succeed) ==
    LET worker == workers[service][w]
        eff == HandlerStep(service, Db, worker, pick, should_succeed)
    IN  /\ worker.pc \in {"handle", "read_inventory", "write"}
        /\ pick \in Picks(service, Db, worker)
        /\ should_succeed \in Draws(service, Db, worker, pick)
        /\ orders' = eff.db.orders
        /\ outbox_events' = eff.db.outbox_events
        /\ payments' = eff.db.payments
        /\ inventory' = eff.db.inventory
        /\ reservations' = eff.db.reservations
        /\ workers' = [workers EXCEPT ![service][w] =
              IF eff.pc = "error" THEN Idle
              ELSE [worker EXCEPT !.pc = eff.pc, !.reply = eff.reply, !.row = eff.row]]
        /\ mutations' = IF eff.db # Db
                        THEN mutations (+) SetToBag({worker.command.idempotency_key})
                        ELSE mutations
        /\ deliveries' = IF eff.pc = "error"
                         THEN deliveries (+) Delivery(service, worker, "handler_error")
                         ELSE deliveries
        /\ committed' = IF eff.pc = "error"
                        THEN commit_message(CommandTopic(service), worker.offset)
                        ELSE committed
        /\ UNCHANGED <<saga_transactions, processed_commands, topics, consumed, env,
                       published, handled, outboxvars>>

\* variant of store_processed_command that replaces the row of the key
StoreProcessedCommand_upsert(service, w) ==
    LET worker == workers[service][w]
        command == worker.command
        conflict == Existing(service, command.idempotency_key) # {}
    IN  /\ worker.pc = "store"
        /\ processed_commands' =
              IF FALSE THEN processed_commands
              ELSE [processed_commands EXCEPT ![service] =
                      (@ \ Existing(service, command.idempotency_key)) \cup
                      {[idempotency_key |-> command.idempotency_key,
                        command_id |-> command.id,
                        result |-> worker.reply.result]}]
        /\ workers' = [workers EXCEPT ![service][w] =
              [worker EXCEPT !.pc = "send"]]
        /\ UNCHANGED <<deliveries, committed>>
        /\ UNCHANGED <<saga_transactions, orders, outbox_events, payments, inventory,
                       reservations, topics, consumed, env, published, handled,
                       mutations, outboxvars>>

\* store_processed_command: insert the row; the primary key idempotency_key
\* makes a second insert fail, and handle_command returns that error
StoreProcessedCommand(service, w) ==
    LET worker == workers[service][w]
        command == worker.command
        conflict == Existing(service, command.idempotency_key) # {}
    IN  /\ worker.pc = "store"
        /\ processed_commands' =
              IF conflict THEN processed_commands
              ELSE [processed_commands EXCEPT ![service] = @ \cup
                      {[idempotency_key |-> command.idempotency_key,
                        command_id |-> command.id,
                        result |-> worker.reply.result]}]
        /\ workers' = [workers EXCEPT ![service][w] =
              IF conflict THEN Idle ELSE [worker EXCEPT !.pc = "send"]]
        /\ deliveries' = IF conflict
                         THEN deliveries (+) Delivery(service, worker, "store_conflict")
                         ELSE deliveries
        /\ committed' = IF conflict
                        THEN commit_message(CommandTopic(service), worker.offset)
                        ELSE committed
        /\ UNCHANGED <<saga_transactions, orders, outbox_events, payments, inventory,
                       reservations, topics, consumed, env, published, handled,
                       mutations, outboxvars>>

\* send_reply: publish the reply on the reply topic; handle_command returns Ok
SendReply(service, w) ==
    LET worker == workers[service][w]
    IN  /\ worker.pc = "send"
        /\ topics' = [topics EXCEPT ![ReplyTopic] = Append(@, worker.reply)]
        /\ workers' = [workers EXCEPT ![service][w] = Idle]
        /\ deliveries' = deliveries (+) Delivery(service, worker,
                             IF worker.cached THEN "replied_cached" ELSE "replied")
        /\ committed' = commit_message(CommandTopic(service), worker.offset)
        /\ UNCHANGED <<dbvars, consumed, env, published, handled, mutations,
                       outboxvars>>

\* handle_command ends early: an infrastructure error (db checkout, a failed
\* statement, a failed publish) makes it return Err.  Whatever it committed
\* to the database so far stays; run logs the error and commits the offset.
Abort(service, w) ==
    LET worker == workers[service][w]
    IN  /\ worker.pc # "idle"
        /\ env.faults > 0
        /\ env' = Spend(FALSE, TRUE)
        /\ workers' = [workers EXCEPT ![service][w] = Idle]
        /\ deliveries' = deliveries (+) Delivery(service, worker, "aborted")
        /\ committed' = commit_message(CommandTopic(service), worker.offset)
        /\ UNCHANGED <<dbvars, topics, consumed, published, handled, mutations,
                       outboxvars>>

\* the process stops inside handle_command: run never gets to commit_message
Crash(service, w) ==
    LET worker == workers[service][w]
    IN  /\ worker.pc # "idle"
        /\ env.faults > 0
        /\ env' = Spend(FALSE, TRUE)
        /\ workers' = [workers EXCEPT ![service][w] = Idle]
        /\ deliveries' = deliveries (+) Delivery(service, worker, "crashed")
        /\ UNCHANGED <<dbvars, topics, consumed, committed, published, handled,
                       mutations, outboxvars>>

\* ------------------------------------------------- outbox publisher
\* publish_event: the topic of an event type
EventTopic(event_type) ==
    CASE event_type = "OrderCreated" -> "order-events"
      [] event_type = "PaymentProcessed" -> "payment-events"
      [] event_type = "InventoryReserved" -> "inventory-events"
      [] OTHER -> "domain-events"
EventTopics == {"order-events", "payment-events", "inventory-events", "domain-events"}

\* OutboxProcessor between two ticks
Sleeping == [pc |-> "sleep", batch |-> <<>>]

\* .limit(100) of the query of process_outbox_events
BatchLimit == 100

\* the query of process_outbox_events: the rows with processed = false in
\* created_at order (the order of insertion), at most BatchLimit of them
unprocessed_events(rows) ==
    LET ids == SelectSeq([i \in 1..Len(rows) |-> i], LAMBDA i : ~rows[i].processed)
        n == IF Len(ids) < BatchLimit THEN Len(ids) ELSE BatchLimit
    IN  [k \in 1..n |-> [id |-> ids[k], aggregate_id |-> rows[ids[k]].aggregate_id,
                         event_type |-> rows[ids[k]].event_type]]

\* the for loop of process_outbox_events goes on with the rest of the batch
NextEvent(batch) ==
    IF Tail(batch) = <<>> THEN Sleeping ELSE [pc |-> "publish", batch |-> Tail(batch)]

\* run + process_outbox_events, up to the loaded batch: the interval fires,
\* a connection is taken and the unprocessed rows are loaded.  Fault "load":
\* pool.get() or the query fails and the tick ends.
Tick_once(fault) ==
    LET batch == unprocessed_events(outbox_events)
    IN  /\ publisher.pc = "sleep"
        /\ \A t \in EventTopics : events[t] = <<>>
        /\ fault \in FaultChoices({"load"})
        /\ env' = Spend(FALSE, fault # "none")
        /\ publisher' = IF fault = "none" /\ batch # <<>>
                         THEN [pc |-> "publish", batch |-> batch]
                         ELSE Sleeping
        /\ UNCHANGED <<dbvars, topics, consumed, committed, workers, published,
                       handled, mutations, deliveries, events, mark_failures,
                       responses>>
Tick(fault) ==
    LET batch == unprocessed_events(outbox_events)
    IN  /\ publisher.pc = "sleep"
        /\ fault \in FaultChoices({"load"})
        /\ env' = Spend(FALSE, fault # "none")
        /\ publisher' = IF fault = "none" /\ batch # <<>>
                         THEN [pc |-> "publish", batch |-> batch]
                         ELSE Sleeping
        /\ UNCHANGED <<dbvars, topics, consumed, committed, workers, published,
                       handled, mutations, deliveries, events, mark_failures,
                       responses>>

\* the record publish_event sends: keyed by aggregate_id; id tells which
\* outbox row it was made from
EventOf(event) == [key |-> event.aggregate_id, id |-> event.id]

\* publish_event for the event at the head of the batch.  A failed send is
\* logged and the loop continues with the next event.
PublishEvent_ignoring_error(ok) ==
    LET event == Head(publisher.batch)
    IN  /\ publisher.pc = "publish"
        /\ ok \in {TRUE} \cup (IF env.faults > 0 THEN {FALSE} ELSE {})
        /\ env' = Spend(FALSE, ~ok)
        /\ events' = IF ok THEN [events EXCEPT ![EventTopic(event.event_type)] =
                                   Append(@, EventOf(event))]
                      ELSE events
        /\ publisher' = [publisher EXCEPT !.pc = "mark"]
        /\ UNCHANGED <<dbvars, topics, consumed, committed, workers, published,
                       handled, mutations, deliveries, mark_failures, responses>>
PublishEvent_returning_error(ok) ==
    LET event == Head(publisher.batch)
    IN  /\ publisher.pc = "publish"
        /\ ok \in {TRUE} \cup (IF env.faults > 0 THEN {FALSE} ELSE {})
        /\ env' = Spend(FALSE, ~ok)
        /\ events' = IF ok THEN [events EXCEPT ![EventTopic(event.event_type)] =
                                   Append(@, EventOf(event))]
                      ELSE events
        /\ publisher' = IF ok THEN [publisher EXCEPT !.pc = "mark"] ELSE Sleeping
        /\ UNCHANGED <<dbvars, topics, consumed, committed, workers, published,
                       handled, mutations, deliveries, mark_failures, responses>>
PublishEvent(ok) ==
    LET event == Head(publisher.batch)
    IN  /\ publisher.pc = "publish"
        /\ ok \in {TRUE} \cup (IF env.faults > 0 THEN {FALSE} ELSE {})
        /\ env' = Spend(FALSE, ~ok)
        /\ events' = IF ok THEN [events EXCEPT ![EventTopic(event.event_type)] =
                                   Append(@, EventOf(event))]
                      ELSE events
        /\ publisher' = IF ok THEN [publisher EXCEPT !.pc = "mark"]
                         ELSE NextEvent(publisher.batch)
        /\ UNCHANGED <<dbvars, topics, consumed, committed, workers, published,
                       handled, mutations, deliveries, mark_failures, responses>>

\* the diesel::update that sets processed = true on the event just published.
\* A failed update returns Err from process_outbox_events: the tick ends.
MarkProcessed_rolling_back(ok) ==
    LET event == Head(publisher.batch)
    IN  /\ publisher.pc = "mark"
        /\ ok \in {TRUE} \cup (IF env.faults > 0 THEN {FALSE} ELSE {})
        /\ env' = Spend(FALSE, ~ok)
        /\ outbox_events' =
              IF ok THEN [outbox_events EXCEPT ![event.id].processed = TRUE]
              ELSE [i \in DOMAIN outbox_events |->
                       [outbox_events[i] EXCEPT !.processed = FALSE]]
        /\ publisher' = IF ok THEN NextEvent(publisher.batch) ELSE Sleeping
        /\ mark_failures' = IF ok THEN mark_failures
                             ELSE mark_failures (+) SetToBag({event.id})
        /\ UNCHANGED <<saga_transactions, orders, payments, inventory, reservations,
                       processed_commands, topics, consumed, committed, workers,
                       published, handled, mutations, deliveries, events, responses>>
MarkProcessed(ok) ==
    LET event == Head(publisher.batch)
    IN  /\ publisher.pc = "mark"
        /\ ok \in {TRUE} \cup (IF env.faults > 0 THEN {FALSE} ELSE {})
        /\ env' = Spend(FALSE, ~ok)
        /\ outbox_events' =
              IF ok THEN [outbox_events EXCEPT ![event.id].processed = TRUE]
              ELSE outbox_events
        /\ publisher' = IF ok THEN NextEvent(publisher.batch) ELSE Sleeping
        /\ mark_failures' = IF ok THEN mark_failures
                             ELSE mark_failures (+) SetToBag({event.id})
        /\ UNCHANGED <<saga_transactions, orders, payments, inventory, reservations,
                       processed_commands, topics, consumed, committed, workers,
                       published, handled, mutations, deliveries, events, responses>>

\* OutboxProcessor::run
OutboxStep ==
    \/ \E fault \in {"none", "load"} : Tick(fault)
    \/ \E ok \in BOOLEAN : PublishEvent(ok)
    \/ \E ok \in BOOLEAN : MarkProcessed(ok)

\* ------------------------------------------------------ specifications
OrderData == [order_id : Sagas, customer_id : {"A"}, product_id : Products,
              quantity : Quantities, total_amount : {100}]

\* the service a command type belongs to (SagaTransaction::new)
ServiceOf(command_type) ==
    CASE command_type \in {"CreateOrder", "ApproveOrder", "CancelOrder"} -> OrderService
      [] command_type \in {"ProcessPayment", "CompensatePayment"} -> PaymentService
      [] command_type \in {"ReserveInventory", "CompensateInventory"} -> InventoryService

\* the command types fed to a participant: the ones its handle_command
\* dispatches on, and one of the others (they all take the `_ =>` arm)
Injectable(service) ==
    {command_type \in CommandType : ServiceOf(command_type) = service}
        \cup {IF service = OrderService THEN "ProcessPayment" ELSE "CreateOrder"}

\* A command arrives on the command topic of the participant under test
\* without a saga behind it, built for the order the run is about.  Each
\* command type arrives at most once for the order, as in a saga's plan;
\* deliveries of a command are repeated by the bus, not by a second command.
Inject(command_type) ==
    LET saga_id == env.order_data.order_id
        n == Len(published[saga_id]) + 1
        send == [command_type |-> command_type, service_name |-> env.target,
                 payload |-> PayloadFor(command_type, env.order_data)]
    IN  /\ env.inject > 0
        /\ command_type \in Injectable(env.target)
        /\ \A i \in 1..Len(published[saga_id]) :
              published[saga_id][i].command_type # command_type
        /\ env' = [env EXCEPT !.inject = @ - 1]
        /\ topics' = SendCommand(topics, saga_id, n, send)
        /\ published' = [published EXCEPT ![saga_id] = Append(@, send)]
        /\ UNCHANGED <<dbvars, consumed, committed, workers, handled, mutations,
                       deliveries, outboxvars>>

\* A command of a started saga arrives on the command topic of the service
\* under test, whose handle_command has no arm for its command_type.
InjectUnsupported(saga_id, service, command_type) ==
    LET n == Len(published[saga_id]) + 1
        order_data == saga_transactions[saga_id].context.order_data
        send == [command_type |-> command_type, service_name |-> service,
                 payload |-> PayloadFor(command_type, order_data)]
    IN  /\ env.inject > 0
        /\ saga_id \in DOMAIN saga_transactions
        /\ service = env.target
        /\ command_type \in Injectable(service)
        /\ ServiceOf(command_type) # service
        /\ env' = [env EXCEPT !.inject = @ - 1]
        /\ topics' = SendCommand(topics, saga_id, n, send)
        /\ published' = [published EXCEPT ![saga_id] = Append(@, send)]
        /\ UNCHANGED <<dbvars, consumed, committed, workers, handled, mutations,
                       deliveries, outboxvars>>

\* A CreateOrder command for one more order arrives at order-service.
OrdersToCreate == [order_id : 1..MaxOrders, customer_id : {"A"}, product_id : {"p1"},
                   quantity : {1}, total_amount : {100}]
InjectOrder(saga_id, order_data) ==
    LET n == Len(published[saga_id]) + 1
        send == [command_type |-> "CreateOrder", service_name |-> OrderService,
                 payload |-> PayloadFor("CreateOrder", order_data)]
    IN  /\ env.inject > 0
        /\ order_data.order_id = n
        /\ env' = [env EXCEPT !.inject = @ - 1]
        /\ topics' = SendCommand(topics, saga_id, n, send)
        /\ published' = [published EXCEPT ![saga_id] = Append(@, send)]
        /\ UNCHANGED <<dbvars, consumed, committed, workers, handled, mutations,
                       deliveries, outboxvars>>

InitTables ==
    /\ saga_transactions = <<>>
    /\ orders = <<>>
    /\ outbox_events = <<>>
    /\ payments = <<>>
    /\ inventory = [p \in {"p1"} |->
                      [available_quantity |-> InitStock, reserved_quantity |-> 0]]
    /\ reservations = <<>>
    /\ processed_commands = [s \in Services |-> {}]
    /\ topics = [t \in Topics |-> <<>>]
    /\ consumed = [t \in Topics |-> 0]
    /\ committed = [t \in Topics |-> 0]
    /\ publisher = Sleeping
    /\ events = [t \in EventTopics |-> <<>>]
    /\ mark_failures = EmptyBag
    /\ responses = <<>>
    /\ workers = [s \in Services |-> [w \in Workers |-> Idle]]
    /\ published = [s \in Sagas |-> <<>>]
    /\ handled = [s \in Sagas |-> <<>>]
    /\ mutations = EmptyBag
    /\ deliveries = EmptyBag

NoOrder == [order_id |-> 0, customer_id |-> "A", product_id |-> "p1", quantity |-> 0,
            total_amount |-> 0]

Environment(sagas, redeliver, faults, workerCount) ==
    [sagas |-> sagas, redeliver |-> redeliver, faults |-> faults,
     workers |-> workerCount, inject |-> 0, target |-> "none", order_data |-> NoOrder,
     poison |-> 0]

Participants ==
    \E service \in Services, w \in Workers :
        \/ \E i \in 1..Len(topics[CommandTopic(service)]) : Receive(service, w, i)
        \/ CheckIdempotency(service, w)
        \/ \E pick \in 0..Len(payments) + Len(reservations), should_succeed \in BOOLEAN :
              Handle(service, w, pick, should_succeed)
        \/ StoreProcessedCommand(service, w)
        \/ SendReply(service, w)

Orchestrator ==
    \/ \E order_data \in OrderData, fault \in {"none", "insert", "send"} :
          StartSaga(order_data, fault)
    \/ \E i \in 1..Len(topics[ReplyTopic]), fault \in {"none", "load", "send", "update"} :
          HandleReply(i, fault)

Crashes ==
    \E service \in Services, w \in Workers :
        \/ Abort(service, w)
        \/ Crash(service, w)

Injections == \E command_type \in CommandType : Inject(command_type)

\* a producer outside the system puts a payload on topic t that is neither a
\* Command nor a CommandReply
InjectUndecodable(t) ==
    /\ env.poison > 0
    /\ env' = [env EXCEPT !.poison = @ - 1]
    /\ topics' = [topics EXCEPT ![t] = Append(@, Garbage)]
    /\ UNCHANGED <<dbvars, consumed, committed, workers, published, handled,
                   mutations, deliveries, outboxvars>>

\* the whole system, exactly-once delivery, no infrastructure error
InitOnce == InitTables /\ env = Environment(NumSagas, 0, 0, 1)
NextOnce == Orchestrator \/ Participants
SpecOnce == InitOnce /\ [][NextOnce]_vars

\* the whole system, at-least-once delivery: a command or a reply may be
\* handed to its consumer again
Init == InitTables /\ env = Environment(1, MaxRedeliver, 0, 1)
Next == Orchestrator \/ Participants
Spec == Init /\ [][Next]_vars

\* the whole system with one saga, exactly-once delivery, the orchestrator's
\* publishes and database statements may fail; every participant and the reply handler keep
\* running (weak fairness of each consumer loop)
ServiceStep(service) ==
    \E w \in Workers :
        \/ \E i \in 1..Len(topics[CommandTopic(service)]) : Receive(service, w, i)
        \/ CheckIdempotency(service, w)
        \/ \E pick \in 0..Len(payments) + Len(reservations), should_succeed \in BOOLEAN :
              Handle(service, w, pick, should_succeed)
        \/ StoreProcessedCommand(service, w)
        \/ SendReply(service, w)
ReplyStep ==
    \E i \in 1..Len(topics[ReplyTopic]), fault \in {"none", "load", "send", "update"} :
        HandleReply(i, fault)
InitLive == InitTables /\ env = Environment(1, 0, MaxFaults, 1)
SpecLive ==
    /\ InitLive /\ [][NextOnce]_vars
    /\ \A service \in Services : WF_vars(ServiceStep(service))
    /\ WF_vars(ReplyStep)

\* the whole system with one saga, exactly-once delivery, no infrastructure
\* error, and undecodable payloads among the messages; the run loops keep
\* taking messages
RunStep(service) ==
    \/ ServiceStep(service)
    \/ \E w \in Workers, i \in 1..Len(topics[CommandTopic(service)]) :
          ReceiveUndecodable(service, w, i)
ReplyRunStep ==
    \/ ReplyStep
    \/ \E i \in 1..Len(topics[ReplyTopic]) : ReplyUndecodable(i)
InitPoison ==
    /\ InitTables
    /\ env = [Environment(1, 0, 0, 1) EXCEPT !.poison = MaxPoison]
NextPoison ==
    \/ \E order_data \in OrderData : StartSaga(order_data, "none")
    \/ \E t \in Topics : InjectUndecodable(t)
    \/ \E service \in Services : RunStep(service)
    \/ ReplyRunStep
SpecPoison ==
    /\ InitPoison /\ [][NextPoison]_vars
    /\ \A service \in Services : WF_vars(RunStep(service))
    /\ WF_vars(ReplyRunStep)

\* order-service with its outbox publisher: orders are created while the
\* publisher ticks; loads, publishes and mark updates may fail; the publisher
\* keeps ticking
InitOutbox ==
    /\ InitTables
    /\ env = [Environment(0, 0, MaxFaults, 1) EXCEPT
                 !.inject = MaxOrders, !.target = OrderService]
NextOutbox ==
    \/ \E order_data \in OrdersToCreate : InjectOrder(1, order_data)
    \/ ServiceStep(OrderService)
    \/ OutboxStep
SpecOutbox == InitOutbox /\ [][NextOutbox]_vars /\ WF_vars(OutboxStep)

\* the orders a participant is run with: product_id and quantity are read by
\* the inventory handlers only
OrdersFor(target) ==
    {o \in OrderData :
        /\ o.order_id <= NumSagas
        /\ target # InventoryService => o.product_id = "p1" /\ o.quantity = 1}

\* the whole system with one saga, exactly-once delivery, no infrastructure
\* error, and commands of the saga that reach one service which does not
\* support them; the order is one every participant accepts (the payment may
\* still be declined)
InitForeign ==
    /\ InitTables
    /\ \E target \in Services :
          env = [Environment(1, 0, 0, 1) EXCEPT !.inject = MaxUnsupported,
                                                !.target = target]
NextForeign ==
    \/ \E order_data \in OrdersFor(OrderService) : StartSaga(order_data, "none")
    \/ ReplyStep
    \/ Participants
    \/ \E saga_id \in Sagas, service \in Services, command_type \in CommandType :
          InjectUnsupported(saga_id, service, command_type)
SpecForeign == InitForeign /\ [][NextForeign]_vars

\* the whole system with NumConcurrent sagas in progress at once, exactly-once
\* delivery and no infrastructure error
InitPair == InitTables /\ env = Environment(NumConcurrent, 0, 0, 1)
SpecPair == InitPair /\ [][NextOnce]_vars

\* NumConcurrent sagas that order one unit of the seeded product each, with
\* two instances of every participant (commands are keyed by saga id, so the
\* commands of two sagas may be handled at the same time); exactly-once
\* delivery, no infrastructure error
UnitOrders == {o \in OrderData : o.product_id = "p1" /\ o.quantity = 1}
InitShared == InitTables /\ env = Environment(NumConcurrent, 0, 0, 2)
NextShared ==
    \/ \E order_data \in UnitOrders : StartSaga(order_data, "none")
    \/ ReplyStep
    \/ Participants
SpecShared == InitShared /\ [][NextShared]_vars

\* the same system when messages may also be delivered again: one saga, a
\* command the order service does not support, at-least-once delivery
InitLate ==
    /\ InitTables
    /\ env = [Environment(1, MaxRedeliver, 0, 1) EXCEPT !.inject = MaxUnsupported,
                                                        !.target = OrderService]
SpecLate == InitLate /\ [][NextForeign]_vars

\* one participant alone: commands for one order arrive on its topic, may be
\* delivered again, and handle_command may end early at any step
InitPart ==
    /\ InitTables
    /\ \E target \in Services : \E order_data \in OrdersFor(target) :
          env = [Environment(0, MaxRedeliver, MaxFaults, 1) EXCEPT
                    !.inject = MaxInject, !.target = target,
                    !.order_data = order_data]
NextPart == Injections \/ Participants \/ Crashes
SpecPart == InitPart /\ [][NextPart]_vars

\* the inventory participant alone, one worker, with up to MaxReplay
\* redeliveries and up to MaxReplay early ends of handle_command
InitReplay ==
    /\ InitTables
    /\ \E order_data \in OrdersFor(OrderService) :
          env = [Environment(0, MaxReplay, MaxReplay, 1) EXCEPT
                    !.inject = MaxInject, !.target = InventoryService,
                    !.order_data = order_data]
SpecReplay == InitReplay /\ [][NextPart]_vars

\* one participant alone whose handle_command may return an error at any
\* step (the process keeps running); its run loop keeps taking the next
\* message and finishing the call in hand.  A message is handed over again
\* only by the bus, which nothing obliges to.
Errors == \E service \in Services, w \in Workers : Abort(service, w)
NextStep(service) ==
    \E w \in Workers :
        \/ \E i \in 1..Len(topics[CommandTopic(service)]) :
              i = consumed[CommandTopic(service)] + 1 /\ Receive(service, w, i)
        \/ CheckIdempotency(service, w)
        \/ \E pick \in 0..Len(payments) + Len(reservations), should_succeed \in BOOLEAN :
              Handle(service, w, pick, should_succeed)
        \/ StoreProcessedCommand(service, w)
        \/ SendReply(service, w)
NextReply == Injections \/ Participants \/ Errors
SpecReply ==
    /\ InitPart /\ [][NextReply]_vars
    /\ \A service \in Services : WF_vars(NextStep(service))

\* one participant with two workers: a redelivered command may be handled
\* while its first delivery is still being handled
InitRace ==
    /\ InitTables
    /\ \E target \in Services : \E order_data \in OrdersFor(target) :
          env = [Environment(0, MaxRedeliver, 0, 2) EXCEPT
                    !.inject = MaxInject, !.target = target,
                    !.order_data = order_data]
NextRace == Injections \/ Participants
SpecRace == InitRace /\ [][NextRace]_vars

\* ------------------------------------------------- history, for the properties
Started(s) == s \in DOMAIN saga_transactions
StatusOf(s) == saga_transactions[s].status
PublishedTypes(s) == [i \in 1..Len(published[s]) |-> published[s][i].command_type]
IsForward(command_type) == command_type \in ForwardTypes
IsCompensation(command_type) == command_type \in CompensationTypes
IsPrefix(a, b) == Len(a) <= Len(b) /\ a = SubSeq(b, 1, Len(a))

\* the forward plan, and the compensation each forward step is expected to have
Plan == <<"CreateOrder", "ProcessPayment", "ReserveInventory", "ApproveOrder">>
CompensationOf(command_type) ==
    CASE command_type = "CreateOrder" -> "CancelOrder"
      [] command_type = "ProcessPayment" -> "CompensatePayment"
      [] command_type = "ReserveInventory" -> "CompensateInventory"
      [] OTHER -> NoType

\* the n-th command of saga s was answered by a handled reply of that status
Answered(s, n, status) ==
    \E i \in 1..Len(handled[s]) :
        handled[s][i].command_id = <<s, n>> /\ handled[s][i].status = status
AllSuccess(s) == \A i \in 1..Len(handled[s]) : handled[s][i].status = "Success"
\* every command published for s has had its reply handled
Settled(s) == Len(handled[s]) = Len(published[s])

\* C1: happy path.  With exactly-once delivery, while every reply handled for a
\* saga is Success, the commands published for it are a prefix of CreateOrder,
\* ProcessPayment, ReserveInventory, ApproveOrder; until it is Completed exactly
\* one command is outstanding, and once the four replies are handled the saga is
\* Completed having published exactly those four commands, each once.
C1_HappyPath ==
    \A s \in Sagas :
        (Started(s) /\ AllSuccess(s)) =>
            /\ IsPrefix(PublishedTypes(s), Plan)
            /\ (StatusOf(s) = "Completed") = (Len(handled[s]) = 4)
            /\ (StatusOf(s) = "Completed" => PublishedTypes(s) = Plan)
            /\ (StatusOf(s) # "Completed" =>
                    /\ StatusOf(s) = "Started"
                    /\ Len(published[s]) = Len(handled[s]) + 1)

C1_Witness ==
    \E s \in Sagas :
        /\ Started(s) /\ AllSuccess(s) /\ Len(handled[s]) = 4
        /\ StatusOf(s) = "Completed" /\ PublishedTypes(s) = Plan

\* C2: with exactly-once delivery, a Compensated saga has published, as its
\* compensation commands, the compensations of the forward steps that replied
\* Success, in reverse order, skipping steps without a compensation.
SuccessfulForward(s) ==
    SelectSeq(PublishedTypes(s),
              LAMBDA t : IsForward(t)
                         /\ \E n \in 1..Len(published[s]) :
                               published[s][n].command_type = t /\ Answered(s, n, "Success"))
CompensationsPublished(s) == SelectSeq(PublishedTypes(s), IsCompensation)
ExpectedCompensations(s) ==
    LET reversed == Reverse(SuccessfulForward(s))
        mapped == [i \in 1..Len(reversed) |-> CompensationOf(reversed[i])]
    IN  SelectSeq(mapped, LAMBDA t : t # NoType)

StepOf(command_type) == CHOOSE k \in 1..Len(Plan) : Plan[k] = command_type
C3_FailedStopsForward ==
    \A s \in Sagas : \A n \in 1..Len(published[s]) :
        (Answered(s, n, "Failed") /\ IsForward(published[s][n].command_type)) =>
            /\ \A m \in 1..Len(published[s]) :
                  IsForward(published[s][m].command_type) =>
                      StepOf(published[s][m].command_type)
                          <= StepOf(published[s][n].command_type)
            /\ StatusOf(s) \in {"Compensating", "Compensated"}

\* ------------------------------------------------ participant history
Replies == topics[ReplyTopic]
RepliesTo(command_id) == {i \in 1..Len(Replies) : Replies[i].command_id = command_id}
\* all commands on the bus, and the idempotency keys among them
Commands == UNION {{topics[CommandTopic(p)][i] : i \in 1..Len(topics[CommandTopic(p)])} :
                      p \in Services}
Keys == {c.idempotency_key : c \in Commands}
CommandOf(key) == CHOOSE c \in Commands : c.idempotency_key = key
InProgress(key) ==
    \E p \in Services, w \in Workers :
        workers[p][w].pc # "idle" /\ workers[p][w].command.idempotency_key = key
RowsOf(key) == UNION {Existing(p, key) : p \in Services}
Ended(key, outcome) ==
    LET sum[ps \in SUBSET Services] ==
          IF ps = {} THEN 0
          ELSE LET p == CHOOSE q \in ps : TRUE
               IN  CopiesIn([service |-> p, key |-> key, outcome |-> outcome], deliveries)
                   + sum[ps \ {p}]
    IN  sum[Services]
Terminal(s) == StatusOf(s) \in {"Completed", "Compensated", "Failed"}

\* C4: Completed, Compensated and Failed are terminal: no step changes the
\* status or current_step of a saga that is in one of them, or publishes a
\* command for it.
C4_TerminalIsFinal ==
    [][\A s \in Sagas :
          (Started(s) /\ Terminal(s)) =>
              /\ saga_transactions'[s].status = saga_transactions[s].status
              /\ saga_transactions'[s].current_step = saga_transactions[s].current_step
              /\ published'[s] = published[s]]_vars

OrchestratorFailed(s) ==
    /\ Started(s)
    /\ \/ published[s] = <<>>
       \/ \E i \in 1..Len(handled[s]) : ~handled[s][i].ok
C6_MutationAtMostOnce ==
    \A key \in Keys : CopiesIn(key, mutations) <= 1

\* C7: all replies published for one command carry the same status and the
\* same result.
C7_SameReplyOnRedelivery ==
    \A i, j \in 1..Len(Replies) :
        Replies[i].command_id = Replies[j].command_id =>
            /\ Replies[i].status = Replies[j].status
            /\ Replies[i].result = Replies[j].result

\* C8: all replies published for one idempotency key carry the same result,
\* the one stored in that key's processed_commands row.
C8_SameResultOnRedelivery ==
    \A i \in 1..Len(Replies) :
        \E c \in Commands :
            /\ c.id = Replies[i].command_id
            /\ RowsOf(c.idempotency_key) # {}
            /\ \A row \in RowsOf(c.idempotency_key) : row.result = Replies[i].result

C8_Witness ==
    \E i, j \in 1..Len(Replies) :
        /\ i < j /\ Replies[i].command_id = Replies[j].command_id
        /\ Replies[i].result # NoResult
        /\ \E c \in Commands :
              c.id = Replies[i].command_id /\ Ended(c.idempotency_key, "replied_cached") > 0

\* C9: when no handle_command is at work on a command, a domain write of that
\* command is committed only if the processed_commands row of its
\* idempotency_key is.
C9_EffectOnlyWithIdempotencyRow ==
    \A key \in Keys :
        (CopiesIn(key, mutations) > 0 /\ ~InProgress(key)) => RowsOf(key) # {}

\* C10: of the deliveries of one key that ran the handler and came to the
\* insert, exactly one inserts the row, and each of them, the ones whose insert
\* failed on the unique key included, ends with a reply.
C10_InsertLoserReplies ==
    \A key \in Keys :
        ~InProgress(key) =>
            /\ Cardinality(RowsOf(key)) <= 1
            /\ Cardinality(RepliesTo(CommandOf(key).id)) =
                  Ended(key, "replied") + Ended(key, "replied_cached")
                  + Ended(key, "store_conflict")

\* the calls of handle_command that returned Err to the run loop of a service
ErrorOutcomes == {"aborted", "handler_error", "store_conflict"}
ErrorReturns(service) ==
    LET ended == {d \in BagToSet(deliveries) :
                     d.service = service /\ d.outcome \in ErrorOutcomes}
    IN  IF ended = {} THEN 0 ELSE BagCardinality([d \in ended |-> deliveries[d]])

\* C11: a step in which handle_command returns an error (db checkout, handler
\* transaction, idempotency insert or reply publish failed) leaves the
\* committed offset of the service's command topic where it was.
C11_ErrorLeavesOffset ==
    [][\A service \in Services :
          ErrorReturns(service)' > ErrorReturns(service) =>
              committed'[CommandTopic(service)] = committed[CommandTopic(service)]]_vars

\* every message on the bus has been taken by its consumer
AllTaken == \A t \in Topics : consumed[t] = Len(topics[t])

\* C12: taking a payload that does not decode (as a Command at a participant,
\* as a CommandReply at the orchestrator) changes no table and publishes
\* nothing, its offset is committed, and the messages of the topic, the ones
\* behind an undecodable payload included, are all taken in the end.
C12_UndecodableSkipped ==
    /\ [][\A t \in Topics :
            (consumed'[t] = consumed[t] + 1 /\ ~Decodes(t, topics[t][consumed'[t]])) =>
                /\ UNCHANGED <<dbvars, topics, published>>
                /\ committed'[t] = consumed'[t]]_vars
    /\ <>[]AllTaken

C12_Witness ==
    /\ \E s \in Sagas : Started(s) /\ StatusOf(s) = "Completed"
    /\ \E t \in Topics \ {ReplyTopic} : \E i, j \in 1..consumed[t] :
          i < j /\ ~Decodes(t, topics[t][i]) /\ Decodes(t, topics[t][j])
    /\ \E i, j \in 1..consumed[ReplyTopic] :
          /\ i < j /\ ~DecodesReply(topics[ReplyTopic][i])
          /\ DecodesReply(topics[ReplyTopic][j])

\* the commands on the topic of a service that has no handler for them
UnsupportedAt(service) ==
    {topics[CommandTopic(service)][i] : i \in 1..Len(topics[CommandTopic(service)])}
        \ {c \in Commands : ServiceOf(c.command_type) = service}
UnsupportedIds == UNION {{c.id : c \in UnsupportedAt(service)} : service \in Services}

\* C13: every reply to a command its service does not support has status
\* Failed and error "Unsupported command type", no domain write was made for
\* the command's key and the key's processed_commands row is there; the
\* handle_reply that takes such a reply leaves the saga Compensating or
\* Compensated.
C13_UnsupportedFailsAndCompensates ==
    /\ [](\A service \in Services : \A c \in UnsupportedAt(service) :
            \A i \in RepliesTo(c.id) :
                /\ Replies[i].status = "Failed"
                /\ Replies[i].error = "Unsupported command type"
                /\ CopiesIn(c.idempotency_key, mutations) = 0
                /\ Existing(service, c.idempotency_key) # {})
    /\ [][\A s \in Sagas :
            (/\ Len(handled'[s]) = Len(handled[s]) + 1
             /\ handled'[s][Len(handled'[s])].command_id \in UnsupportedIds
             /\ handled'[s][Len(handled'[s])].ok) =>
                saga_transactions'[s].status \in {"Compensating", "Compensated"}]_vars

C13_Witness ==
    \E s \in Sagas : \E i \in 1..Len(handled[s]) :
        /\ handled[s][i].command_id \in UnsupportedIds
        /\ handled[s][i].ok /\ handled[s][i].status = "Failed"
        /\ i = Len(handled[s])
        /\ StatusOf(s) = "Compensating"
        /\ \E j \in 1..Len(published[s]) : IsCompensation(published[s][j].command_type)

\* the errors of a handler that found a domain rule violated
DomainErrors == {"Product not found", "Insufficient inventory",
                 "Payment processing failed"}
InHandler(worker) == worker.pc \in {"handle", "read_inventory", "write"}
DomainTables == <<orders, outbox_events, payments, inventory, reservations>>

\* C14: a handler statement that changes a domain row ends the handler with a
\* Success reply, and the statement on which a handler returns Failed with a
\* domain error changes no domain row, so a call that returns Failed left
\* the domain rows as they were; the store_processed_command that follows it
\* inserts the row of the key; every Failed reply on the reply topic carries
\* an error string and the row of its command is there.
C14_DomainFailureWritesNothing ==
    /\ [][/\ DomainTables' # DomainTables =>
               \E service \in Services, w \in Workers :
                   /\ InHandler(workers[service][w])
                   /\ workers'[service][w].pc = "store"
                   /\ workers'[service][w].reply.status = "Success"
          /\ \A service \in Services, w \in Workers :
               (/\ InHandler(workers[service][w])
                /\ workers'[service][w].pc = "store"
                /\ workers'[service][w].reply.error \in DomainErrors) =>
                   /\ workers'[service][w].reply.status = "Failed"
                   /\ DomainTables' = DomainTables
                   /\ mutations' = mutations
          /\ \A service \in Services, w \in Workers :
               (/\ workers[service][w].pc = "store"
                /\ workers[service][w].reply.status = "Failed"
                /\ workers'[service][w].pc = "send") =>
                   \E row \in processed_commands'[service] :
                       /\ row.idempotency_key = workers[service][w].command.idempotency_key
                       /\ row.result = NoResult]_vars
    /\ [](\A i \in 1..Len(Replies) :
            Replies[i].status = "Failed" =>
                /\ Replies[i].error # "None"
                /\ \E c \in Commands :
                      c.id = Replies[i].command_id /\ RowsOf(c.idempotency_key) # {})

C14_Witness ==
    /\ \E i \in 1..Len(Replies) : \E c \in Commands :
          /\ c.id = Replies[i].command_id
          /\ Replies[i].status = "Failed"
          /\ Replies[i].error = "Insufficient inventory"
          /\ RowsOf(c.idempotency_key) # {}
    /\ reservations = <<>>
    /\ inventory["p1"].available_quantity = InitStock

\* ------------------------------------------------------ outbox history
RowIds == 1..MaxOrders
IsRow(r) == r \in DOMAIN outbox_events
\* how often the event of outbox row r is on the bus
Publications(r) ==
    LET sum[ts \in SUBSET EventTopics] ==
          IF ts = {} THEN 0
          ELSE LET t == CHOOSE u \in ts : TRUE
               IN  Cardinality({i \in 1..Len(events[t]) : events[t][i].id = r})
                   + sum[ts \ {t}]
    IN  sum[EventTopics]
InBatch(r) == \E k \in 1..Len(publisher.batch) : publisher.batch[k].id = r

\* C15: every outbox row committed with processed = false is in the end
\* published to the bus and marked processed = true, when the publisher keeps
\* ticking and loads, publishes and mark updates fail finitely often.
C15_RowEventuallyPublished ==
    \A r \in RowIds :
        (IsRow(r) /\ ~outbox_events[r].processed)
            ~> (IsRow(r) /\ outbox_events[r].processed /\ Publications(r) > 0)

C15_Witness ==
    /\ \A r \in RowIds : IsRow(r) /\ outbox_events[r].processed /\ Publications(r) > 0
    /\ env.faults = 0

\* C16: no step, of the publisher or of a handler, removes an outbox row or
\* sets processed of a row from true back to false.
C16_ProcessedIsNeverUnmarked ==
    [][\A r \in DOMAIN outbox_events :
          /\ r \in DOMAIN outbox_events'
          /\ outbox_events[r].processed => outbox_events'[r].processed]_vars

C16_Witness ==
    \E r, q \in RowIds :
        /\ IsRow(r) /\ IsRow(q)
        /\ outbox_events[r].processed
        /\ ~outbox_events[q].processed /\ CopiesIn(q, mark_failures) > 0

\* C17, as stated: a row with processed = true has its event on the bus
\* exactly once (it was published before it was marked, and never again).
C17_ProcessedMeansPublishedOnce ==
    \A r \in DOMAIN outbox_events :
        outbox_events[r].processed => Publications(r) = 1

\* C17, amended: a row with processed = true has its event on the bus once
\* for the mark update that succeeded and once more for every mark update of
\* the row that failed before (so at least once, and exactly once when none
\* failed), and no step publishes the event of a row that is processed.
C17_PublishedOncePerMarkAttempt ==
    /\ [](\A r \in DOMAIN outbox_events :
            outbox_events[r].processed =>
                Publications(r) = 1 + CopiesIn(r, mark_failures))
    /\ [][\A r \in DOMAIN outbox_events :
            outbox_events[r].processed => Publications(r)' = Publications(r)]_vars

C17_Witness ==
    \E r \in RowIds :
        /\ IsRow(r) /\ outbox_events[r].processed
        /\ CopiesIn(r, mark_failures) = 1 /\ Publications(r) = 2

\* C19: an order row exists exactly when an OrderCreated outbox row with
\* aggregate_id = the order's id exists, in every state, the ones after
\* handle_command ended early included.
C19_OrderIffOutboxRow ==
    \A order_id \in 1..MaxOrders :
        order_id \in DOMAIN orders <=>
            \E r \in DOMAIN outbox_events :
                /\ outbox_events[r].aggregate_id = order_id
                /\ outbox_events[r].event_type = "OrderCreated"

C19_Witness ==
    \E key \in Keys :
        /\ CommandOf(key).command_type = "CreateOrder"
        /\ Ended(key, "aborted") + Ended(key, "crashed") + Ended(key, "handler_error") > 0
        /\ CommandOf(key).payload.order_id \in DOMAIN orders
        /\ \E r \in DOMAIN outbox_events :
              outbox_events[r].aggregate_id = CommandOf(key).payload.order_id

\* C20: a failed publish leaves its row processed = false and the loop goes
\* on with the rest of the batch in the same tick; the load of a tick takes
\* every row that has processed = false, and a row left unprocessed while the
\* publisher sleeps is loaded again.
C20_PublishFailureContinues ==
    /\ [][(publisher.pc = "publish" /\ publisher' # publisher /\ events' = events) =>
             /\ outbox_events' = outbox_events
             /\ ~outbox_events'[Head(publisher.batch).id].processed
             /\ publisher' = NextEvent(publisher.batch)]_vars
    /\ [][(publisher.pc = "sleep" /\ publisher'.pc = "publish") =>
             \A r \in DOMAIN outbox_events :
                 ~outbox_events[r].processed =>
                     \E k \in 1..Len(publisher'.batch) : publisher'.batch[k].id = r]_vars
    /\ \A r \in RowIds :
          (IsRow(r) /\ ~outbox_events[r].processed /\ publisher.pc = "sleep")
              ~> InBatch(r)

C20_Witness ==
    /\ publisher.pc = "mark"
    /\ mark_failures = EmptyBag
    /\ \E r \in RowIds :
          /\ IsRow(r) /\ ~outbox_events[r].processed /\ Publications(r) = 0
          /\ r < Head(publisher.batch).id

\* ------------------------------------------------ orchestrator history
LastResponse == responses'[Len(responses')]
AsInserted(row) ==
    /\ row.status = "Started" /\ row.current_step = 0
    /\ row.steps = SagaSteps /\ DOMAIN row.context = {"order_data"}

\* C21: a command is on the bus for a saga, and a reply is given to
\* handle_reply for it, only when the saga's row exists; a start_saga that
\* returns Ok has stored the row as built and published the command of
\* steps[0]; a start_saga whose publish failed returns an error and leaves the
\* row as inserted, with nothing published.
C21_RowBeforeFirstCommand ==
    /\ [](\A s \in Sagas : (published[s] # <<>> \/ handled[s] # <<>>) => Started(s))
    /\ [][Len(responses') = Len(responses) + 1 =>
            LET s == LastResponse.saga_id
            IN  /\ LastResponse.ok =>
                      /\ s \notin DOMAIN saga_transactions
                      /\ s \in DOMAIN saga_transactions'
                      /\ AsInserted(saga_transactions'[s])
                      /\ Len(published'[s]) = 1
                      /\ published'[s][1].command_type = "CreateOrder"
                      /\ published'[s][1].service_name = OrderService
                /\ ~LastResponse.ok =>
                      /\ published'[s] = <<>>
                      /\ topics' = topics
                      /\ s \in DOMAIN saga_transactions' =>
                            AsInserted(saga_transactions'[s])]_vars

C21_Witness ==
    \E i \in 1..Len(responses) :
        /\ ~responses[i].ok
        /\ Started(responses[i].saga_id)
        /\ AsInserted(saga_transactions[responses[i].saga_id])
        /\ published[responses[i].saga_id] = <<>>

\* the reply handle_reply was given in this step, for saga s
Handling(s) == Len(handled'[s]) = Len(handled[s]) + 1
LastHandled(s) == handled'[s][Len(handled'[s])]

\* C22: a handle_reply that returns an error (the saga could not be loaded,
\* the command could not be published, the update failed) leaves every saga
\* row, status, current_step and context, as it was.
C22_ErrorLeavesSagaRow ==
    [][\A s \in Sagas :
          (Handling(s) /\ ~LastHandled(s).ok) => saga_transactions' = saga_transactions]_vars

C22_Witness ==
    \E s \in Sagas : \E i \in 1..Len(handled[s]) :
        /\ Started(s)
        /\ ~handled[s][i].ok /\ handled[s][i].status = "Success"
        /\ i = Len(handled[s])
        /\ saga_transactions[s].current_step = i - 1
        /\ Len(published[s]) = i + 1

\* the steps among the first n of a plan that have a compensation, last first
RECURSIVE Undo(_, _)
Undo(steps, n) ==
    IF n = 0 THEN <<>>
    ELSE IF steps[n].compensation_type # NoType
         THEN <<steps[n]>> \o Undo(steps, n - 1)
         ELSE Undo(steps, n - 1)

\* C23: a Failed reply that handle_reply handles without error, whatever the
\* status of the saga, stores the compensation steps of steps[0..current_step]
\* with compensation_index 0 and either sets Compensating and publishes the
\* first compensation command, or, with nothing to compensate, sets
\* Compensated and publishes nothing.
C23_FailedStartsCompensation ==
    [][\A s \in Sagas :
          (Handling(s) /\ LastHandled(s).ok /\ LastHandled(s).status = "Failed") =>
              LET row == saga_transactions[s]
                  after == saga_transactions'[s]
                  plan == Undo(row.steps, row.current_step)
              IN  /\ after.current_step = row.current_step
                  /\ after.context.compensation_steps = plan
                  /\ after.context.compensation_index = 0
                  /\ plan = <<>> =>
                        /\ after.status = "Compensated"
                        /\ published'[s] = published[s]
                  /\ plan # <<>> =>
                        /\ after.status = "Compensating"
                        /\ Len(published'[s]) = Len(published[s]) + 1
                        /\ SubSeq(published'[s], 1, Len(published[s])) = published[s]
                        /\ published'[s][Len(published'[s])].command_type =
                               plan[1].compensation_type
                        /\ published'[s][Len(published'[s])].service_name =
                               plan[1].service_name]_vars

\* a Failed reply was handled when the saga was Completed: all three
\* compensations are planned and CancelOrder's turn comes last
C23_Witness ==
    \E s \in Sagas :
        /\ Started(s)
        /\ handled[s] # <<>>
        /\ handled[s][Len(handled[s])].status = "Failed"
        /\ handled[s][Len(handled[s])].ok
        /\ StatusOf(s) = "Compensating"
        /\ saga_transactions[s].current_step = Len(SagaSteps)
        /\ Len(saga_transactions[s].context.compensation_steps) = 3
        /\ published[s][Len(published[s])].command_type = "CompensateInventory"

\* C24: current_step of a saga row is never below 0 nor above the number of
\* steps, whatever replies are handled, duplicates and replies that come
\* after the saga ended included.
C24_CurrentStepInRange ==
    \A s \in Sagas :
        Started(s) =>
            /\ saga_transactions[s].current_step >= 0
            /\ saga_transactions[s].current_step <= Len(saga_transactions[s].steps)

\* a Success reply handled again after the saga completed
C24_Witness ==
    \E s \in Sagas :
        /\ Started(s)
        /\ saga_transactions[s].current_step = Len(saga_transactions[s].steps)
        /\ Len(handled[s]) > Len(SagaSteps)
        /\ \A i \in 1..Len(handled[s]) : handled[s][i].status = "Success" /\ handled[s][i].ok

\* the status of saga s becomes Completed in this step
Completes(s) ==
    /\ s \in DOMAIN saga_transactions'
    /\ saga_transactions'[s].status = "Completed"
    /\ (Started(s) => StatusOf(s) # "Completed")

\* C25: a Completed saga has current_step = len(steps), and the status is set
\* to Completed only by handling the Success reply that moves current_step
\* from len(steps) - 1 to len(steps).
C25_CompletedByLastAdvance ==
    /\ [](\A s \in Sagas :
            (Started(s) /\ StatusOf(s) = "Completed") =>
                saga_transactions[s].current_step = Len(saga_transactions[s].steps))
    /\ [][\A s \in Sagas :
            Completes(s) =>
                /\ Started(s) /\ Handling(s)
                /\ LastHandled(s).ok /\ LastHandled(s).status = "Success"
                /\ saga_transactions[s].current_step = Len(SagaSteps) - 1
                /\ saga_transactions'[s].current_step = Len(SagaSteps)]_vars

\* C26: a saga that is Compensating or Compensated carries compensation_index
\* and compensation_steps in its context, and compensation_steps are the
\* steps of steps[0..current_step] that have a compensation, last first.
C26_CompensationPlanMatchesProgress ==
    \A s \in Sagas :
        (Started(s) /\ StatusOf(s) \in {"Compensating", "Compensated"}) =>
            LET row == saga_transactions[s]
            IN  /\ {"compensation_index", "compensation_steps"} \subseteq DOMAIN row.context
                /\ row.context.compensation_steps = Undo(row.steps, row.current_step)

\* C27: no saga is ever Failed or InProgress, neither in the status column of
\* its row nor in the status the row is read back with.
C27_FailedAndInProgressUnreachable ==
    \A s \in Sagas :
        Started(s) =>
            /\ StatusOf(s) \notin {"Failed", "InProgress"}
            /\ SagaTryFrom(saga_transactions[s]).status \notin {"Failed", "InProgress"}

\* a saga whose forward step failed and whose compensation is over
C27_Witness ==
    \E s \in Sagas :
        /\ Started(s)
        /\ \E i \in 1..Len(handled[s]) : handled[s][i].status = "Failed" /\ handled[s][i].ok
        /\ StatusOf(s) = "Compensated"
        /\ saga_transactions[s].context.compensation_index =
               Len(saga_transactions[s].context.compensation_steps)

\* the commands on the bus that carry saga id s
CommandsOf(bus, s) ==
    [t \in Topics \ {ReplyTopic} |->
        SelectSeq(bus[t], LAMBDA m : DecodesCommand(m) /\ m.saga_id = s)]
RowOf(rows, s) == IF s \in DOMAIN rows THEN <<rows[s]>> ELSE <<>>

\* C28: with two sagas in progress, handling a reply of one saga leaves the
\* row of the other as it is and publishes no command for it; and the forward
\* commands published for each saga are a prefix of the plan.
C28_SagasAreIsolated ==
    /\ [](\A s \in Sagas : IsPrefix(SelectSeq(PublishedTypes(s), IsForward), Plan))
    /\ [][\A a, b \in Sagas :
            (Handling(a) /\ a # b) =>
                /\ RowOf(saga_transactions', b) = RowOf(saga_transactions, b)
                /\ published'[b] = published[b]
                /\ handled'[b] = handled[b]
                /\ CommandsOf(topics', b) = CommandsOf(topics, b)]_vars

\* replies of saga 1, saga 2 and saga 1 again were handled in this order, and
\* the two sagas ended differently
C28_Witness ==
    /\ \E i, j, k \in 1..consumed[ReplyTopic] :
          /\ i < j /\ j < k
          /\ topics[ReplyTopic][i].saga_id = 1
          /\ topics[ReplyTopic][j].saga_id = 2
          /\ topics[ReplyTopic][k].saga_id = 1
    /\ Started(1) /\ Started(2)
    /\ StatusOf(1) = "Completed"
    /\ StatusOf(2) = "Compensated"

\* the topic each compensation command is expected on
CompensationTopic(command_type) ==
    CASE command_type = "CancelOrder" -> "order-service-commands"
      [] command_type = "CompensatePayment" -> "payment-service-commands"
      [] command_type = "CompensateInventory" -> "inventory-service-commands"

\* handle_reply publishes a command for saga s in this step
Publishes(s) == Handling(s) /\ Len(published'[s]) = Len(published[s]) + 1
LastPublished(s) == published'[s][Len(published'[s])]

\* C29: a command that handle_reply publishes for a saga it leaves
\* Compensating is the compensation of the planned step whose turn it is:
\* its type is that step's compensation_type and it is appended to the topic
\* of that step's service (CancelOrder to order-service, CompensatePayment to
\* payment-service, CompensateInventory to inventory-service); and no
\* compensation plan holds a step without compensation_type, so ApproveOrder
\* never gives rise to a compensation command.
C29_CompensationGoesToItsService ==
    /\ [](\A s \in Sagas :
            (Started(s) /\ "compensation_steps" \in DOMAIN saga_transactions[s].context) =>
                \A k \in 1..Len(saga_transactions[s].context.compensation_steps) :
                    /\ saga_transactions[s].context.compensation_steps[k].compensation_type # NoType
                    /\ saga_transactions[s].context.compensation_steps[k].command_type # "ApproveOrder")
    /\ [][\A s \in Sagas :
            (Publishes(s) /\ saga_transactions'[s].status = "Compensating") =>
                LET after == saga_transactions'[s]
                    step == after.context.compensation_steps[after.context.compensation_index + 1]
                    t == CompensationTopic(LastPublished(s).command_type)
                IN  /\ LastPublished(s).command_type \in CompensationTypes
                    /\ LastPublished(s).command_type = step.compensation_type
                    /\ LastPublished(s).service_name = step.service_name
                    /\ t = CommandTopic(step.service_name)
                    /\ Len(topics'[t]) = Len(topics[t]) + 1
                    /\ topics'[t][Len(topics'[t])].command_type = step.compensation_type
                    /\ topics'[t][Len(topics'[t])].saga_id = s
                    /\ \A u \in Topics \ {t} : topics'[u] = topics[u]]_vars

\* a Completed saga was compensated: the three compensations were published
\* in turn, each handled by its service, and none for ApproveOrder
C29_Witness ==
    \E s \in Sagas :
        /\ Started(s)
        /\ StatusOf(s) = "Compensated"
        /\ saga_transactions[s].current_step = Len(SagaSteps)
        /\ \E n \in 3..Len(published[s]) :
              /\ published[s][n - 2].command_type = "CompensateInventory"
              /\ published[s][n - 1].command_type = "CompensatePayment"
              /\ published[s][n].command_type = "CancelOrder"
        /\ \A c \in CompensationTypes :
              \E i \in 1..Len(topics[CompensationTopic(c)]) :
                  topics[CompensationTopic(c)][i].command_type = c

\* C30: processed_commands holds at most one row per idempotency_key; a row
\* is inserted only by a handle_command whose handler has returned, with the
\* id of its command and the result of its reply; and a row, once inserted,
\* is never changed or removed.
C30_OneRowPerKeyForGood ==
    /\ [](\A service \in Services : \A r \in processed_commands[service] :
            Cardinality(Existing(service, r.idempotency_key)) = 1)
    /\ [][\A service \in Services :
            /\ processed_commands[service] \subseteq processed_commands'[service]
            /\ \A r \in processed_commands'[service] \ processed_commands[service] :
                  \E w \in Workers :
                      /\ workers[service][w].pc = "store"
                      /\ workers'[service][w].pc = "send"
                      /\ r.idempotency_key = workers[service][w].command.idempotency_key
                      /\ r.command_id = workers[service][w].command.id
                      /\ r.result = workers[service][w].reply.result]_vars

\* two handle_command calls for one key both ran the handler: the row of the
\* first stands, the insert of the second was refused
C30_Witness ==
    \E service \in Services : \E r \in processed_commands[service] :
        /\ Ended(r.idempotency_key, "store_conflict") >= 1
        /\ Ended(r.idempotency_key, "replied") >= 1

\* the handler of worker w of the service, called for a command of that type,
\* returns in this step
Returns(service, w, command_type) ==
    /\ InHandler(workers[service][w])
    /\ workers[service][w].command.command_type = command_type
    /\ workers'[service][w].pc = "store"
\* the commands of that type that a handler (not the idempotency lookup)
\* answered
HandledOf(service, command_type) ==
    {c \in Commands :
        /\ c.command_type = command_type
        /\ CopiesIn([service |-> service, key |-> c.idempotency_key,
                     outcome |-> "replied"], deliveries) >= 1}
Refunded(rows, order_id) ==
    \A i \in DOMAIN rows : rows[i].order_id = order_id => rows[i].status = "refunded"

\* C31: a CompensatePayment handler sets every payment of its order to
\* "refunded", touches nothing else and replies Success; run for an order
\* whose payments are refunded already (a second CompensatePayment under
\* another idempotency key) it leaves the payments table as it is.
C31_CompensatePaymentIdempotent ==
    [][\A w \in Workers :
          Returns(PaymentService, w, "CompensatePayment") =>
              LET order_id == workers[PaymentService][w].command.payload.order_id
              IN  /\ workers'[PaymentService][w].reply.status = "Success"
                  /\ Len(payments') = Len(payments)
                  /\ \A i \in DOMAIN payments :
                        payments'[i] =
                            IF payments[i].order_id = order_id
                            THEN [order_id |-> order_id, status |-> "refunded"]
                            ELSE payments[i]
                  /\ Refunded(payments', order_id)
                  /\ Refunded(payments, order_id) => payments' = payments]_vars

\* two CompensatePayment commands of one order, with different keys, were
\* both run by the handler and answered Success, and the order's payment is
\* refunded
C31_Witness ==
    \E c, d \in HandledOf(PaymentService, "CompensatePayment") :
        /\ c.idempotency_key # d.idempotency_key
        /\ c.payload.order_id = d.payload.order_id
        /\ \E i \in RepliesTo(c.id) : Replies[i].status = "Success"
        /\ \E i \in RepliesTo(d.id) : Replies[i].status = "Success"
        /\ payments # <<>>
        /\ Refunded(payments, c.payload.order_id)

ReservedOf(rows, payload) ==
    {i \in DOMAIN rows : /\ rows[i].order_id = payload.order_id
                          /\ rows[i].product_id = payload.product_id
                          /\ rows[i].status = "reserved"}

\* C32: a ReserveInventory handler that succeeds by reserving moves the
\* quantity from available to reserved and inserts the reservation as
\* "reserved"; a CompensateInventory handler for a pair (order_id,
\* product_id) that has a reservation in status "reserved" moves that
\* reservation's quantity back and sets it "cancelled", so the counters are
\* what they were before the reservation; for a pair without a reservation
\* in status "reserved", and only then, it changes nothing; it replies
\* Success either way.
C32_CompensateUndoesReserve ==
    [][\A w \in Workers :
          LET worker == workers[InventoryService][w]
              payload == worker.command.payload
              product_id == payload.product_id
          IN  /\ (Returns(InventoryService, w, "ReserveInventory") /\ worker.pc = "write") =>
                    /\ workers'[InventoryService][w].reply.status = "Success"
                    /\ inventory'[product_id].available_quantity =
                           inventory[product_id].available_quantity - payload.quantity
                    /\ inventory'[product_id].reserved_quantity =
                           inventory[product_id].reserved_quantity + payload.quantity
                    /\ reservations' = Append(reservations,
                           [product_id |-> product_id, order_id |-> payload.order_id,
                            quantity |-> payload.quantity, status |-> "reserved"])
              /\ Returns(InventoryService, w, "CompensateInventory") =>
                    /\ workers'[InventoryService][w].reply.status = "Success"
                    /\ worker.pc = "handle" =>
                          /\ ReservedOf(reservations, payload) = {}
                          /\ UNCHANGED DomainTables
                    /\ worker.pc = "write" =>
                          /\ worker.row.id \in ReservedOf(reservations, payload)
                          /\ reservations' =
                                 [reservations EXCEPT ![worker.row.id].status = "cancelled"]
                          /\ inventory'[product_id].available_quantity =
                                 inventory[product_id].available_quantity
                                     + reservations[worker.row.id].quantity
                          /\ inventory'[product_id].reserved_quantity =
                                 inventory[product_id].reserved_quantity
                                     - reservations[worker.row.id].quantity]_vars

\* the commands published for saga s that no handled reply answers yet
Outstanding(s) ==
    {n \in 1..Len(published[s]) :
        \A i \in 1..Len(handled[s]) : handled[s][i].command_id # <<s, n>>}

\* C33: with exactly-once delivery a saga never has more than one command
\* outstanding; handling a reply publishes at most one command for the saga,
\* and none when it leaves the saga Completed or Compensated.
C33_OneCommandOutstanding ==
    /\ [](\A s \in Sagas : Cardinality(Outstanding(s)) <= 1)
    /\ [][\A s \in Sagas :
            Handling(s) =>
                /\ Len(published'[s]) <= Len(published[s]) + 1
                /\ SubSeq(published'[s], 1, Len(published[s])) = published[s]
                /\ saga_transactions'[s].status \in {"Completed", "Compensated"} =>
                       published'[s] = published[s]]_vars

\* one saga is Completed and the other Compensated, nothing outstanding, and
\* every command of both was answered by exactly one handled reply
C33_Witness ==
    /\ Started(1) /\ Started(2)
    /\ {StatusOf(1), StatusOf(2)} = {"Completed", "Compensated"}
    /\ \A s \in Sagas :
          /\ Outstanding(s) = {}
          /\ Len(handled[s]) = Len(published[s])
          /\ Len(published[s]) >= 3

\* C34: under at-least-once delivery, no forward command (CreateOrder,
\* ProcessPayment, ReserveInventory, ApproveOrder) is published for a saga
\* whose status is Compensating or Compensated.
C34_NoForwardAfterCompensation ==
    [][\A s \in Sagas :
          (Started(s) /\ StatusOf(s) \in {"Compensating", "Compensated"}) =>
              \A n \in (Len(published[s]) + 1)..Len(published'[s]) :
                  ~IsForward(published'[s][n].command_type)]_vars

\* the position among the commands published for s of its first command of
\* that type (0 = none)
FirstOfType(s, command_type) ==
    IF \E n \in 1..Len(published[s]) : published[s][n].command_type = command_type
    THEN CHOOSE n \in 1..Len(published[s]) :
            /\ published[s][n].command_type = command_type
            /\ \A m \in 1..(n - 1) : published[s][m].command_type # command_type
    ELSE 0
\* the reply handled in this step answers a command a reply was handled for
\* before
Duplicate(s) ==
    \E i \in 1..Len(handled[s]) : handled[s][i].command_id = LastHandled(s).command_id
Progress(row) ==
    <<row.current_step,
      IF "compensation_index" \in DOMAIN row.context
      THEN row.context.compensation_index ELSE 0>>

\* C35: under at-least-once delivery the command of forward step k+1 is
\* published only once the command of step k was answered Success; a saga
\* is Completed or Compensated only once every command published for it was
\* answered Success, the one answered Failed aside; and handling a second
\* Success reply to a command changes neither current_step nor
\* compensation_index.
C35_ProgressOnlyOnFreshSuccess ==
    /\ [](\A s \in Sagas : \A k \in 1..(Len(Plan) - 1) :
            FirstOfType(s, Plan[k + 1]) # 0 =>
                /\ FirstOfType(s, Plan[k]) # 0
                /\ Answered(s, FirstOfType(s, Plan[k]), "Success"))
    /\ [](\A s \in Sagas :
            (Started(s) /\ StatusOf(s) \in {"Completed", "Compensated"}) =>
                \A n \in 1..Len(published[s]) :
                    Answered(s, n, "Success") \/ Answered(s, n, "Failed"))
    /\ [][\A s \in Sagas :
            (Handling(s) /\ LastHandled(s).status = "Success" /\ Duplicate(s)) =>
                Progress(saga_transactions'[s]) = Progress(saga_transactions[s])]_vars

\* C36: when handle_reply has published a command and returned, the saga row
\* shows it: for the command of a forward step, current_step has moved on to
\* that step; for a compensation, the row is Compensating and
\* compensation_index points at the step being compensated.
C36_PublishedCommandIsPersisted ==
    [][\A s \in Sagas :
          Publishes(s) =>
              LET after == saga_transactions'[s]
                  command_type == LastPublished(s).command_type
              IN  /\ IsForward(command_type) =>
                        /\ after.current_step = saga_transactions[s].current_step + 1
                        /\ after.steps[after.current_step + 1].command_type = command_type
                  /\ IsCompensation(command_type) =>
                        /\ after.status = "Compensating"
                        /\ "compensation_index" \in DOMAIN after.context
                        /\ after.context.compensation_steps[
                               after.context.compensation_index + 1].compensation_type
                               = command_type]_vars

\* every processed_commands row belongs to a command whose reply is on the
\* reply topic
StoredAreAnswered ==
    \A service \in Services : \A r \in processed_commands[service] :
        RepliesTo(r.command_id) # {}

\* C37: a command whose handler ran and whose processed_commands row is
\* stored eventually has its reply on the reply topic, also when the publish
\* of the reply failed.
C37_HandledIsEventuallyAnswered == []<>StoredAreAnswered

\* the sum of quantity over the reservations of a product in status "reserved"
ReservedSum(product_id) ==
    LET sum[n \in 0..Len(reservations)] ==
          IF n = 0 THEN 0
          ELSE sum[n - 1] +
               (IF /\ reservations[n].product_id = product_id
                   /\ reservations[n].status = "reserved"
                THEN reservations[n].quantity ELSE 0)
    IN  sum[Len(reservations)]

\* C38: for every product, available_quantity + reserved_quantity is the
\* seeded total, and reserved_quantity is the sum of quantity over the
\* product's reservations in status "reserved".
C38_InventoryConservation ==
    \A product_id \in DOMAIN inventory :
        /\ inventory[product_id].available_quantity
               + inventory[product_id].reserved_quantity = InitStock
        /\ inventory[product_id].reserved_quantity = ReservedSum(product_id)

\* C39: available_quantity of a product is never negative, also with two
\* handlers that reserve the same product at the same time.
C39_AvailableNeverNegative ==
    \A product_id \in DOMAIN inventory : inventory[product_id].available_quantity >= 0

\* the quantity of a product that the reservations of other orders hold
ReservedByOthers(product_id, order_id) ==
    LET sum[n \in 0..Len(reservations)] ==
          IF n = 0 THEN 0
          ELSE sum[n - 1] +
               (IF /\ reservations[n].product_id = product_id
                   /\ reservations[n].order_id # order_id
                   /\ reservations[n].status = "reserved"
                THEN reservations[n].quantity ELSE 0)
    IN  sum[Len(reservations)]

\* the forward effects of the order that are in force
Approved(order_id) == order_id \in DOMAIN orders /\ orders[order_id] = "approved"
Processed(order_id) ==
    {i \in DOMAIN payments : /\ payments[i].order_id = order_id
                              /\ payments[i].status = "processed"}
Reserved(order_id) ==
    {i \in DOMAIN reservations : /\ reservations[i].order_id = order_id
                                  /\ reservations[i].status = "reserved"}

\* C40: with exactly-once delivery, a saga in status Compensated has no
\* forward effect in force: its order is not "approved", it has no payment
\* "processed" and no reservation "reserved", and the inventory counters are
\* the seeded ones but for what other orders hold reserved.
C40_CompensatedLeavesNothing ==
    \A s \in DOMAIN saga_transactions :
        StatusOf(s) = "Compensated" =>
            LET order_data == saga_transactions[s].context.order_data
            IN  /\ ~Approved(order_data.order_id)
                /\ Processed(order_data.order_id) = {}
                /\ Reserved(order_data.order_id) = {}
                /\ \A product_id \in DOMAIN inventory :
                      /\ inventory[product_id].reserved_quantity =
                             ReservedByOthers(product_id, order_data.order_id)
                      /\ inventory[product_id].available_quantity =
                             InitStock - ReservedByOthers(product_id, order_data.order_id)
====
